---- MODULE Spec2Model ----
(***************************************************************************)
(* fabrik: a backtracking sudoku solver.                                   *)
(*                                                                         *)
(* The model follows src/src: Position, Field, Board (parsing from a      *)
(* Vec<Option<u8>>, validation, next_empty_field), the BacktrackingIter    *)
(* engine (one step of execute_stack's loop per action) and the two        *)
(* queries built on it, first_solution and count_solutions (one step of    *)
(* the iterator chain per item pulled from the engine).                    *)
(*                                                                         *)
(* A caller parses an input, then performs operations on the parsed board,  *)
(* each on a fresh engine, as Board is Copy and every query takes it by     *)
(* value: a solve_iter polled until None, whose items are kept as the       *)
(* reference sequence, followed by solve_iter, first_solution or            *)
(* count_solutions, and then by the other of first_solution and             *)
(* count_solutions(None, None); or first_solution twice.                    *)
(*                                                                         *)
(* Further specifications: Terminating (solve_iter under fairness), Engine  *)
(* (solve_iter alone, on more inputs), Calls (direct calls of try_from,     *)
(* to_string and the board functions) and Cli (examples/cli/main.rs).       *)
(***************************************************************************)
EXTENDS Integers, Sequences, FiniteSets, TLC

VARIABLES
    input,             \* the Vec<Option<u8>> handed to Board::try_from
    parsed,            \* the Result of Board::try_from (<<>> before the call)
    pc,                \* where the caller is
    op,                \* the operation in progress and its arguments
    calls,             \* number of operations started on the parsed board
    board,             \* BacktrackingIter.board
    current_position,  \* BacktrackingIter.current_position
    stack,             \* BacktrackingIter.stack (top is the last element)
    emitted,           \* every item the current engine's next() returned
    advances,          \* number of calls of next() on the current engine
    index,             \* count_solutions: counter of the first enumerate()
    solution_index,    \* count_solutions: counter of the second enumerate()
    count,             \* count_solutions: accumulator of count()
    result,            \* the value the operation returned (<<>> while running)
    reference,         \* the items the first operation's engine returned
    first_result,      \* the result of the first operation
    text,              \* the &str or Vec<u8> handed to Board::try_from
    grid,              \* the Board a function of board.rs is called on
    arg_position,      \* the Position argument of that call
    arg_number,        \* the digit argument of that call
    returned,          \* what the call returned (<<>> before it)
    file,              \* the Result of fs::read_to_string(filename)
    solved_board,      \* solve's local variable solved_board
    renderer_calls,    \* the calls made on the SudokuRenderer, in order
    stdout,            \* what main itself has printed
    exit_code,         \* the argument of std::process::exit (<<>> before it)
    position_iter,     \* a PositionIter (<<>> before it is created)
    board_iter,        \* a BoardIter of src/sudoku (<<>> before it is created)
    yielded            \* every item the iterator's next() returned

vars == <<input, parsed, pc, op, calls, board, current_position, stack, emitted,
          advances, index, solution_index, count, result, reference, first_result,
          text, grid, arg_position, arg_number, returned,
          file, solved_board, renderer_calls, stdout, exit_code,
          position_iter, board_iter, yielded>>

\* The state of the command line program of examples/cli
cli_vars == <<file, solved_board, renderer_calls, stdout, exit_code>>

\* The state of the iterators over the positions and over the fields of a board
iter_vars == <<position_iter, board_iter, yielded>>

\* The state of the direct calls of the parsing, rendering and board functions,
\* that of the command line program and that of the iterators
pure_vars == <<text, grid, arg_position, arg_number, returned, cli_vars, iter_vars>>

(***************************************************************************)
(* Bounds of the model                                                     *)
(***************************************************************************)
\* Inputs blank the first k <= MaxHoles cells of HoleOrder, but one at most.
MaxHoles == 10
\* max_solutions ranges over None and 0..MaxSolutions.
MaxSolutions == 2
\* max_iterations ranges over None and 0..MaxIterations.
MaxIterations == 8
\* A caller of solve_iter polls at most this often after the first None.
MaxPollsAfterNone == 2

(***************************************************************************)
(* Option<T>: None is <<>>, Some(x) is <<x>>                               *)
(***************************************************************************)
None == <<>>
Some(x) == <<x>>

(***************************************************************************)
(* position.rs                                                             *)
(***************************************************************************)
from_index(i) == [row |-> i \div 9, column |-> i % 9]

\* Mutant: the last coord on the board is taken to be 81.
incremented_copy_through_81(p) ==
    LET coords == p.row * 9 + p.column + 1
    IN  IF coords <= 81
        THEN Some([row |-> coords \div 9, column |-> coords % 9])
        ELSE None

incremented_copy(p) ==
    LET coords == p.row * 9 + p.column + 1
    IN  IF coords < 81
        THEN Some([row |-> coords \div 9, column |-> coords % 9])
        ELSE None

\* The row-major index of a position (the inverse of from_index).
linear(p) == p.row * 9 + p.column

Positions == { from_index(i) : i \in 0..80 }

(***************************************************************************)
(* field.rs: Field(FieldInner).  Value(v) is the u8 v, Empty is -1.        *)
(***************************************************************************)
Empty == -1
from_u8(value) == value
is_filled(f) == f # Empty
is_empty(f) == f = Empty

\* Mutant: the digit is not validated.
Field_new_unchecked(digit) == [ok |-> TRUE, field |-> digit]

\* Mutant: (0..=9).contains(&digit)
Field_new_from_zero(digit) ==
    IF digit >= 0 /\ digit <= 9
    THEN [ok |-> TRUE, field |-> digit]
    ELSE [ok |-> FALSE, field |-> Empty]

\* Field::new: Ok(Field) for a digit 1..9, else Err(InvalidCharacter)
Field_new(digit) ==
    IF digit >= 1 /\ digit <= 9
    THEN [ok |-> TRUE, field |-> digit]
    ELSE [ok |-> FALSE, field |-> Empty]

(***************************************************************************)
(* board.rs: Board([[Field; 9]; 9])                                        *)
(***************************************************************************)
get_field(b, p) == b[p.row][p.column]

put_field(b, p, f) == [b EXCEPT ![p.row][p.column] = f]

\* Mutant: the scan starts after `position` instead of at it.
RECURSIVE next_empty_field_after(_, _)
next_empty_field_after(b, position) ==
    LET n == incremented_copy(position)
    IN  IF n = None THEN None
        ELSE IF is_empty(get_field(b, n[1])) THEN n
        ELSE next_empty_field_after(b, n[1])

\* Mutant: the scan starts at the first field, whatever `position` is.
next_empty_field_from_first(b, position) ==
    LET find[it \in { None } \cup { Some(p) : p \in Positions }] ==
            IF it = None THEN None
            ELSE IF is_empty(get_field(b, it[1])) THEN it
            ELSE find[incremented_copy(it[1])]
    IN  find[Some(from_index(0))]

\* PositionIter::new(position).find(|p| self.get_field(*p).is_empty()):
\* find[it] is what find() returns when PositionIter.position is `it`.
next_empty_field(b, position) ==
    LET find[it \in { None } \cup { Some(p) : p \in Positions }] ==
            IF it = None THEN None
            ELSE IF is_empty(get_field(b, it[1])) THEN it
            ELSE find[incremented_copy(it[1])]
    IN  find[Some(position)]

number_used_in_row(b, position, number) ==
    \E c \in 0..8 : b[position.row][c] = number

number_used_in_column(b, position, number) ==
    \E row \in 0..8 : get_field(b, [row |-> row, column |-> position.column]) = number

number_used_in_square(b, position, number) ==
    LET square_row == position.row \div 3
        square_column == position.column \div 3
    IN  \E row_increase \in 0..2 :
            \E c \in (square_column * 3)..(square_column * 3 + 2) :
                b[square_row * 3 + row_increase][c] = number

\* Mutant: the column is not checked.
valid_number_without_column(b, position, number) ==
    /\ ~number_used_in_row(b, position, number)
    /\ ~number_used_in_square(b, position, number)

\* Mutant: the row is not checked.
valid_number_without_row(b, position, number) ==
    /\ ~number_used_in_column(b, position, number)
    /\ ~number_used_in_square(b, position, number)

valid_number_at_position(b, position, number) ==
    /\ ~number_used_in_row(b, position, number)
    /\ ~number_used_in_column(b, position, number)
    /\ ~number_used_in_square(b, position, number)

\* Mutant: only the row of the field is checked.
rule_violations_in_rows(b) ==
    { pos \in Positions :
        /\ is_filled(get_field(b, pos))
        /\ number_used_in_row(put_field(b, pos, Empty), pos, get_field(b, pos)) }

\* Mutant: the fields are taken off one board, and stay off it for the
\* positions checked later.
rule_violations_on_one_board(b) ==
    LET cleared(pos) ==
            [ r \in 0..8 |-> [ c \in 0..8 |->
                IF r * 9 + c <= linear(pos) THEN Empty ELSE b[r][c] ] ]
    IN  { pos \in Positions :
            /\ is_filled(get_field(b, pos))
            /\ ~valid_number_at_position(cleared(pos), pos, get_field(b, pos)) }

rule_violations(b) ==
    { pos \in Positions :
        /\ is_filled(get_field(b, pos))
        /\ ~valid_number_at_position(put_field(b, pos, Empty), pos, get_field(b, pos)) }

\* impl TryFrom<Vec<Option<u8>>> for Board
try_from(vec) ==
    IF Len(vec) # 81
    THEN [ok |-> FALSE, error |-> "InvalidLength", errors |-> {}]
    ELSE LET parsed_field(i) ==
                 IF vec[i + 1] = None THEN [ok |-> TRUE, field |-> Empty]
                 ELSE Field_new(vec[i + 1][1])
             lenient_board ==
                 [r \in 0..8 |-> [c \in 0..8 |-> parsed_field(r * 9 + c).field]]
             positions_with_parse_errors ==
                 { <<from_index(i), "InvalidCharacter">> :
                     i \in { j \in 0..80 : ~parsed_field(j).ok } }
             violations ==
                 { <<pos, "SudokuRuleViolation">> : pos \in rule_violations(lenient_board) }
             all_errors == positions_with_parse_errors \cup violations
         IN  IF all_errors = {}
             THEN [ok |-> TRUE, board |-> lenient_board]
             ELSE [ok |-> FALSE, error |-> "ParseErrors", errors |-> all_errors]

(***************************************************************************)
(* The inputs: the solved "starry" board of the tests (board.rs 384-392)   *)
(* with a set of cells blanked and, possibly, one cell overwritten.        *)
(***************************************************************************)
Base ==
    << 6,1,3,5,2,9,7,8,4,
       7,4,2,8,3,6,5,1,9,
       9,8,5,1,7,4,3,2,6,
       2,6,9,3,8,5,1,4,7,
       5,3,1,9,4,7,2,6,8,
       8,7,4,6,1,2,9,3,5,
       4,2,6,7,5,1,8,9,3,
       3,9,7,2,6,8,4,5,1,
       1,5,8,4,9,3,6,7,2 >>

\* The cells an input may blank, as row-major indices, in the order they are blanked.
HoleOrder == << 2, 4, 11, 13, 0, 80, 22, 20, 6, 24, 1 >>

\* The first k cells of HoleOrder, but the one at place skip (0: none is skipped)
Holes(k, skip) == { HoleOrder[j] : j \in (1..k) \ {skip} }

\* One cell set to a digit after blanking: none, or (2,6) := 7.
Overrides == { None, Some([at |-> 24, digit |-> 7]) }

Input(H, o) ==
    [ i \in 1..81 |->
        IF o # None /\ o[1].at = i - 1 THEN Some(o[1].digit)
        ELSE IF (i - 1) \in H THEN None
        ELSE Some(Base[i]) ]

Inputs ==
    { Input(Holes(k, skip), o) : k \in 0..MaxHoles, skip \in 0..MaxHoles, o \in Overrides }

\* A cell that holds 9 in the solved board, (0,5): where it is blanked the
\* engine goes through all of 1..9.
NineCell == 5

NineInputs == { Input(Holes(k, 0) \cup { NineCell }, None) : k \in 0..MaxHoles }

\* Option<usize> values of max_solutions and max_iterations
SolutionCaps == { None } \cup { Some(n) : n \in 0..MaxSolutions }
IterationCaps == { None } \cup { Some(n) : n \in 0..MaxIterations }

(***************************************************************************)
(* backtracking_iter.rs                                                    *)
(***************************************************************************)
TryValue(pos, v) == [instr |-> "TryValue", pos |-> pos, v |-> v]
BackTo(pos) == [instr |-> "BackTo", pos |-> pos, v |-> 0]

EmptyBoard == [r \in 0..8 |-> [c \in 0..8 |-> Empty]]

\* Mutant: `for value in 1..=9`, whatever the instruction's value.
first_valid_value_from_one(b, pos, v) ==
    LET ok == { value \in 1..9 : valid_number_at_position(b, pos, from_u8(value)) }
    IN  IF ok = {} THEN None
        ELSE Some(CHOOSE value \in ok : \A other \in ok : value <= other)

\* The first value of `for value in v..=9` that is a valid number at pos
first_valid_value(b, pos, v) ==
    LET ok == { value \in v..9 : valid_number_at_position(b, pos, from_u8(value)) }
    IN  IF ok = {} THEN None
        ELSE Some(CHOOSE value \in ok : \A other \in ok : value <= other)

\* BacktrackingIter::prepare_stack
prepare_stack(st, cur, next_empty) ==
    st \o << BackTo(cur), TryValue(next_empty, 1) >>

\* The item next() returns after PutNewFieldOnBoard
put_new_field_item(b, cur) ==
    Some([board |-> b, is_solved |-> next_empty_field(b, cur) = None])

Top(st) == st[Len(st)]
Pop(st) == SubSeq(st, 1, Len(st) - 1)

(***************************************************************************)
(* Initial state: an input, nothing parsed yet                             *)
(***************************************************************************)
Init ==
    /\ input \in Inputs
    /\ parsed = None
    /\ pc = "start"
    /\ op = [name |-> "none", max_solutions |-> None, max_iterations |-> None]
    /\ calls = 0
    /\ board = EmptyBoard
    /\ current_position = from_index(0)
    /\ stack = << >>
    /\ emitted = << >>
    /\ advances = 0
    /\ index = 0
    /\ solution_index = 0
    /\ count = 0
    /\ result = None
    /\ reference = << >>
    /\ first_result = None
    /\ text = << >>
    /\ grid = None
    /\ arg_position = from_index(0)
    /\ arg_number = 1
    /\ returned = None
    /\ file = None
    /\ solved_board = EmptyBoard
    /\ renderer_calls = << >>
    /\ stdout = << >>
    /\ exit_code = None
    /\ position_iter = None
    /\ board_iter = None
    /\ yielded = << >>

engine_vars == <<board, current_position, stack, emitted, advances>>
chain_vars == <<index, solution_index, count>>

\* Board::try_from(input)
TryFrom ==
    /\ pc = "start"
    /\ parsed' = Some(try_from(input))
    /\ pc' = IF try_from(input).ok THEN "parsed" ELSE "parse_error"
    /\ UNCHANGED <<pure_vars, input, op, calls, engine_vars, chain_vars, result,
                   reference, first_result>>

(***************************************************************************)
(* Starting an operation: each creates its engine with                     *)
(* BacktrackingIter::new(self) on a copy of the parsed board.              *)
(***************************************************************************)
Last(s) == s[Len(s)]

\* The number of leading Some items of a sequence of items
RECURSIVE some_prefix_len(_)
some_prefix_len(items) ==
    IF items = << >> \/ items[1] = None THEN 0
    ELSE 1 + some_prefix_len(Tail(items))

\* The pairs an engine returned before its first None
pairs_before_none(items) ==
    [ k \in 1..some_prefix_len(items) |-> items[k][1] ]

has_returned_none(items) == some_prefix_len(items) < Len(items)

\* The caller starts its first operation, or the one before is over and it
\* starts the next one on the same parsed board.
may_call(name) ==
    \/ pc = "parsed" /\ calls = 0 /\ name \in {"solve_iter", "first_solution"}
    \/ /\ pc = "done" /\ calls = 1
       /\ \/ op.name = "solve_iter" /\ Len(emitted) = some_prefix_len(emitted) + 1
          \/ op.name = "first_solution" /\ name = "first_solution"
    \/ /\ pc = "done" /\ calls = 2 /\ first_result = None
       /\ op.max_solutions = None /\ op.max_iterations = None
       /\ \/ op.name = "first_solution" /\ name = "count_solutions"
          \/ op.name = "count_solutions" /\ name = "first_solution"

new(name, max_solutions, max_iterations) ==
    /\ may_call(name)
    /\ calls = 2 => max_solutions = None /\ max_iterations = None
    /\ op' = [name |-> name, max_solutions |-> max_solutions,
              max_iterations |-> max_iterations]
    /\ calls' = calls + 1
    /\ reference' = IF calls = 1 THEN emitted ELSE reference
    /\ first_result' = IF calls = 1 THEN result ELSE first_result
    /\ board' = parsed[1].board
    /\ current_position' = [row |-> 0, column |-> 0]
    /\ stack' = << >>
    /\ emitted' = << >>
    /\ advances' = 0
    /\ index' = 0
    /\ solution_index' = 0
    /\ count' = 0
    /\ result' = None
    /\ pc' = "next"
    /\ UNCHANGED <<pure_vars, input, parsed>>

solve_iter == new("solve_iter", None, None)

first_solution == new("first_solution", None, None)

count_solutions ==
    \E max_solutions \in SolutionCaps, max_iterations \in IterationCaps :
        new("count_solutions", max_solutions, max_iterations)

(***************************************************************************)
(* BacktrackingIter::next and execute_stack                                *)
(***************************************************************************)
\* next(), up to the call of execute_stack
next ==
    /\ pc = "next"
    /\ advances' = advances + 1
    /\ LET next_empty == next_empty_field(board, current_position)
       IN  stack' = IF next_empty # None
                    THEN prepare_stack(stack, current_position, next_empty[1])
                    ELSE stack
    /\ pc' = "execute_stack"
    /\ UNCHANGED <<pure_vars, input, parsed, op, calls, board, current_position,
                   emitted, chain_vars, result, reference, first_result>>

\* Mutant: any valid value of v..=9 is put, not the first one.
execute_TryValue_any_value ==
    /\ pc = "execute_stack"
    /\ stack # << >>
    /\ Top(stack).instr = "TryValue"
    /\ LET pos == Top(stack).pos
           ok == { value \in Top(stack).v..9 :
                     valid_number_at_position(board, pos, from_u8(value)) }
       IN  /\ current_position' = pos
           /\ IF ok # {}
              THEN \E value \in ok :
                       /\ stack' = IF value < 9
                                   THEN Append(Pop(stack), TryValue(pos, value + 1))
                                   ELSE Pop(stack)
                       /\ board' = put_field(board, pos, from_u8(value))
                       /\ emitted' = Append(emitted, put_new_field_item(board', pos))
                       /\ pc' = "item"
              ELSE /\ stack' = Pop(stack)
                   /\ UNCHANGED <<board, emitted, pc>>
    /\ UNCHANGED <<pure_vars, input, parsed, op, calls, advances, chain_vars, result,
                   reference, first_result>>

\* Mutant: the engine works on the caller's board, not on a copy of it.
execute_TryValue_on_callers_board ==
    /\ pc = "execute_stack"
    /\ stack # << >>
    /\ Top(stack).instr = "TryValue"
    /\ LET pos == Top(stack).pos
           found == first_valid_value(board, pos, Top(stack).v)
       IN  /\ current_position' = pos
           /\ IF found # None
              THEN LET value == found[1]
                   IN  /\ stack' = IF value < 9
                                   THEN Append(Pop(stack), TryValue(pos, value + 1))
                                   ELSE Pop(stack)
                       /\ board' = put_field(board, pos, from_u8(value))
                       /\ parsed' = Some([parsed[1] EXCEPT !.board = board'])
                       /\ emitted' = Append(emitted, put_new_field_item(board', pos))
                       /\ pc' = "item"
              ELSE /\ stack' = Pop(stack)
                   /\ UNCHANGED <<board, parsed, emitted, pc>>
    /\ UNCHANGED <<pure_vars, input, op, calls, advances, chain_vars, result,
                   reference, first_result>>

\* Mutant: the instruction to resume is pushed after 9 too.
execute_TryValue_always_resumes ==
    /\ pc = "execute_stack"
    /\ stack # << >>
    /\ Top(stack).instr = "TryValue"
    /\ LET pos == Top(stack).pos
           found == first_valid_value(board, pos, Top(stack).v)
       IN  /\ current_position' = pos
           /\ IF found # None
              THEN LET value == found[1]
                   IN  /\ stack' = Append(Pop(stack), TryValue(pos, value + 1))
                       /\ board' = put_field(board, pos, from_u8(value))
                       /\ emitted' = Append(emitted, put_new_field_item(board', pos))
                       /\ pc' = "item"
              ELSE /\ stack' = Pop(stack)
                   /\ UNCHANGED <<board, emitted, pc>>
    /\ UNCHANGED <<pure_vars, input, parsed, op, calls, advances, chain_vars, result,
                   reference, first_result>>

\* Mutant: the instruction to resume starts at the value just put.
execute_TryValue_resumes_at_value ==
    /\ pc = "execute_stack"
    /\ stack # << >>
    /\ Top(stack).instr = "TryValue"
    /\ LET pos == Top(stack).pos
           found == first_valid_value(board, pos, Top(stack).v)
       IN  /\ current_position' = pos
           /\ IF found # None
              THEN LET value == found[1]
                   IN  /\ stack' = IF value < 9
                                   THEN Append(Pop(stack), TryValue(pos, value))
                                   ELSE Pop(stack)
                       /\ board' = put_field(board, pos, from_u8(value))
                       /\ emitted' = Append(emitted, put_new_field_item(board', pos))
                       /\ pc' = "item"
              ELSE /\ stack' = Pop(stack)
                   /\ UNCHANGED <<board, emitted, pc>>
    /\ UNCHANGED <<pure_vars, input, parsed, op, calls, advances, chain_vars, result,
                   reference, first_result>>

\* One turn of the loop: Instruction::TryValue(pos, v) is popped
execute_TryValue ==
    /\ pc = "execute_stack"
    /\ stack # << >>
    /\ Top(stack).instr = "TryValue"
    /\ LET pos == Top(stack).pos
           found == first_valid_value(board, pos, Top(stack).v)
       IN  /\ current_position' = pos
           /\ IF found # None
              THEN LET value == found[1]
                   IN  /\ stack' = IF value < 9
                                   THEN Append(Pop(stack), TryValue(pos, value + 1))
                                   ELSE Pop(stack)
                       /\ board' = put_field(board, pos, from_u8(value))
                       /\ emitted' = Append(emitted, put_new_field_item(board', pos))
                       /\ pc' = "item"
              ELSE /\ stack' = Pop(stack)
                   /\ UNCHANGED <<board, emitted, pc>>
    /\ UNCHANGED <<pure_vars, input, parsed, op, calls, advances, chain_vars, result,
                   reference, first_result>>

\* Mutant: the instruction is read with last(), not taken with pop().
execute_BackTo_without_pop ==
    /\ pc = "execute_stack"
    /\ stack # << >>
    /\ Top(stack).instr = "BackTo"
    /\ board' = put_field(board, current_position, Empty)
    /\ current_position' = Top(stack).pos
    /\ stack' = stack
    /\ UNCHANGED <<pure_vars, input, parsed, pc, op, calls, emitted, advances,
                   chain_vars, result, reference, first_result>>

\* Mutant: the current position is not cleared before moving back.
execute_BackTo_without_clear ==
    /\ pc = "execute_stack"
    /\ stack # << >>
    /\ Top(stack).instr = "BackTo"
    /\ board' = board
    /\ current_position' = Top(stack).pos
    /\ stack' = Pop(stack)
    /\ UNCHANGED <<pure_vars, input, parsed, pc, op, calls, emitted, advances,
                   chain_vars, result, reference, first_result>>

\* Mutant: the position moved back to is cleared, not the current one.
execute_BackTo_clears_target ==
    /\ pc = "execute_stack"
    /\ stack # << >>
    /\ Top(stack).instr = "BackTo"
    /\ board' = put_field(board, Top(stack).pos, Empty)
    /\ current_position' = Top(stack).pos
    /\ stack' = Pop(stack)
    /\ UNCHANGED <<pure_vars, input, parsed, pc, op, calls, emitted, advances,
                   chain_vars, result, reference, first_result>>

\* Mutant: the current position is cleared but not moved back.
execute_BackTo_keeps_position ==
    /\ pc = "execute_stack"
    /\ stack # << >>
    /\ Top(stack).instr = "BackTo"
    /\ board' = put_field(board, current_position, Empty)
    /\ current_position' = current_position
    /\ stack' = Pop(stack)
    /\ UNCHANGED <<pure_vars, input, parsed, pc, op, calls, emitted, advances,
                   chain_vars, result, reference, first_result>>

\* One turn of the loop: Instruction::BackTo(pos) is popped
execute_BackTo ==
    /\ pc = "execute_stack"
    /\ stack # << >>
    /\ Top(stack).instr = "BackTo"
    /\ board' = put_field(board, current_position, Empty)
    /\ current_position' = Top(stack).pos
    /\ stack' = Pop(stack)
    /\ UNCHANGED <<pure_vars, input, parsed, pc, op, calls, emitted, advances,
                   chain_vars, result, reference, first_result>>

\* Mutant: with the stack empty the engine returns its grid as a pair.
execute_RanOutOfStack_returns_board ==
    /\ pc = "execute_stack"
    /\ stack = << >>
    /\ emitted' = Append(emitted, put_new_field_item(board, current_position))
    /\ pc' = "item"
    /\ UNCHANGED <<pure_vars, input, parsed, op, calls, board, current_position, stack,
                   advances, chain_vars, result, reference, first_result>>

\* The stack is empty: RanOutOfStack, next() returns None
execute_RanOutOfStack ==
    /\ pc = "execute_stack"
    /\ stack = << >>
    /\ emitted' = Append(emitted, None)
    /\ pc' = "item"
    /\ UNCHANGED <<pure_vars, input, parsed, op, calls, board, current_position, stack,
                   advances, chain_vars, result, reference, first_result>>

(***************************************************************************)
(* The consumers of the engine's items                                     *)
(***************************************************************************)
\* A caller of solve_iter asks for the next item.
poll ==
    /\ pc = "item"
    /\ op.name = "solve_iter"
    /\ \/ ~has_returned_none(emitted)
       \/ Len(emitted) - some_prefix_len(emitted) <= MaxPollsAfterNone
    /\ pc' = "next"
    /\ UNCHANGED <<pure_vars, input, parsed, op, calls, engine_vars, chain_vars,
                   result, reference, first_result>>

\* A caller of solve_iter drops the engine after it has returned None.
stop ==
    /\ pc = "item"
    /\ op.name = "solve_iter"
    /\ has_returned_none(emitted)
    /\ pc' = "done"
    /\ UNCHANGED <<pure_vars, input, parsed, op, calls, engine_vars, chain_vars,
                   result, reference, first_result>>

\* Mutant: the closure accepts every pair.
any_pair(pair) == TRUE

\* first_solution's closure: |(_, is_solved)| *is_solved
is_solved_pair(pair) == pair.is_solved

Ok(b) == [ok |-> TRUE, board |-> b, error |-> "none"]
Err(e) == [ok |-> FALSE, board |-> EmptyBoard, error |-> e]

\* Mutant: find() running into None yields the board the engine started from.
find_returns_board_on_none ==
    /\ pc = "item"
    /\ op.name = "first_solution"
    /\ LET item == Last(emitted)
       IN  IF item = None
           THEN result' = Some(Ok(parsed[1].board)) /\ pc' = "done"
           ELSE IF is_solved_pair(item[1])
           THEN result' = Some(Ok(item[1].board)) /\ pc' = "done"
           ELSE result' = result /\ pc' = "next"
    /\ UNCHANGED <<pure_vars, input, parsed, op, calls, engine_vars, chain_vars,
                   reference, first_result>>

\* first_solution: one turn of find() on the item next() returned
find ==
    /\ pc = "item"
    /\ op.name = "first_solution"
    /\ LET item == Last(emitted)
       IN  IF item = None
           THEN result' = Some(Err("Unsolvable")) /\ pc' = "done"
           ELSE IF is_solved_pair(item[1])
           THEN result' = Some(Ok(item[1].board)) /\ pc' = "done"
           ELSE result' = result /\ pc' = "next"
    /\ UNCHANGED <<pure_vars, input, parsed, op, calls, engine_vars, chain_vars,
                   reference, first_result>>

\* Mutant: index <= max
at_most_max(i, max) == IF max # None THEN i <= max[1] ELSE TRUE

\* The closure of both take_while()s: index < max, or true without a max
below_max(i, max) == IF max # None THEN i < max[1] ELSE TRUE

\* count_solutions: the item next() returned goes through
\* enumerate . take_while . filter . enumerate . take_while . count
count_step ==
    /\ pc = "item"
    /\ op.name = "count_solutions"
    /\ LET item == Last(emitted)
       IN  IF item = None
           THEN /\ result' = Some(count) /\ pc' = "done"
                /\ UNCHANGED chain_vars
           ELSE /\ index' = index + 1
                /\ IF ~below_max(index, op.max_iterations)
                   THEN /\ result' = Some(count) /\ pc' = "done"
                        /\ UNCHANGED <<solution_index, count>>
                   ELSE IF ~is_solved_pair(item[1])
                   THEN /\ result' = result /\ pc' = "next"
                        /\ UNCHANGED <<solution_index, count>>
                   ELSE /\ solution_index' = solution_index + 1
                        /\ IF ~below_max(solution_index, op.max_solutions)
                           THEN result' = Some(count) /\ pc' = "done" /\ count' = count
                           ELSE result' = result /\ pc' = "next" /\ count' = count + 1
    /\ UNCHANGED <<pure_vars, input, parsed, op, calls, engine_vars, reference,
                   first_result>>

Next ==
    \/ TryFrom
    \/ solve_iter
    \/ first_solution
    \/ count_solutions
    \/ next
    \/ execute_TryValue
    \/ execute_BackTo
    \/ execute_RanOutOfStack
    \/ poll
    \/ stop
    \/ find
    \/ count_step

Spec == Init /\ [][Next]_vars

\* A call of next() runs to its return, and the caller of solve_iter goes on
\* asking for items as long as it has not been given None.
RunsOn ==
    /\ WF_vars(next \/ execute_TryValue \/ execute_BackTo \/ execute_RanOutOfStack)
    /\ WF_vars(poll)

\* The callers that only advance an engine: solve_iter, once or twice
Advance ==
    \/ TryFrom
    \/ solve_iter
    \/ next
    \/ execute_TryValue
    \/ execute_BackTo
    \/ execute_RanOutOfStack
    \/ poll
    \/ stop

Terminating == Init /\ [][Advance]_vars /\ RunsOn

(***************************************************************************)
(* The two queries of one board: first_solution, and then                   *)
(* count_solutions(None, None) on the same board.                           *)
(***************************************************************************)
\* board.count_solutions(None, None) by a caller that has the result of
\* board.first_solution(); first_result keeps that result.
count_solutions_uncapped ==
    /\ pc = "done" /\ calls = 1 /\ op.name = "first_solution"
    /\ op' = [name |-> "count_solutions", max_solutions |-> None,
              max_iterations |-> None]
    /\ calls' = calls + 1
    /\ reference' = emitted
    /\ first_result' = result
    /\ board' = parsed[1].board
    /\ current_position' = [row |-> 0, column |-> 0]
    /\ stack' = << >>
    /\ emitted' = << >>
    /\ advances' = 0
    /\ index' = 0
    /\ solution_index' = 0
    /\ count' = 0
    /\ result' = None
    /\ pc' = "next"
    /\ UNCHANGED <<pure_vars, input, parsed>>

Ask ==
    \/ TryFrom
    \/ first_solution
    \/ count_solutions_uncapped
    \/ next
    \/ execute_TryValue
    \/ execute_BackTo
    \/ execute_RanOutOfStack
    \/ find
    \/ count_step

Queries == Init /\ [][Ask]_vars

(***************************************************************************)
(* The engine by itself: solve_iter on the inputs, and on those with a       *)
(* blanked 9, polled until None and a few times more.                       *)
(***************************************************************************)
EngineInit ==
    /\ input \in Inputs \cup NineInputs
    /\ parsed = None
    /\ pc = "start"
    /\ op = [name |-> "none", max_solutions |-> None, max_iterations |-> None]
    /\ calls = 0
    /\ board = EmptyBoard
    /\ current_position = from_index(0)
    /\ stack = << >>
    /\ emitted = << >>
    /\ advances = 0
    /\ index = 0
    /\ solution_index = 0
    /\ count = 0
    /\ result = None
    /\ reference = << >>
    /\ first_result = None
    /\ text = << >>
    /\ grid = None
    /\ arg_position = from_index(0)
    /\ arg_number = 1
    /\ returned = None
    /\ file = None
    /\ solved_board = EmptyBoard
    /\ renderer_calls = << >>
    /\ stdout = << >>
    /\ exit_code = None
    /\ position_iter = None
    /\ board_iter = None
    /\ yielded = << >>

Engine == EngineInit /\ [][Advance]_vars

(***************************************************************************)
(* Text: a &str is the sequence of its chars (code points), a Vec<u8> the   *)
(* sequence of its bytes.                                                   *)
(***************************************************************************)
Tab == 9
LineFeed == 10
Space == 32
Dash == 45
Zero == 48
One == 49
Nine == 57
LetterF == 102
EAcute == 233
InvalidValue == 255

\* char::is_whitespace: the code points with the White_Space property
is_whitespace(c) ==
    \/ c \in Tab..13
    \/ c \in { Space, 133, 160, 5760, 8232, 8233, 8239, 8287, 12288 }
    \/ c \in 8192..8202

\* input.split_whitespace().collect::<String>()
split_whitespace(str) == SelectSeq(str, LAMBDA c : ~is_whitespace(c))

\* The UTF-8 encoding of a char below U+10000
utf8(c) ==
    IF c < 128 THEN << c >>
    ELSE IF c < 2048 THEN << 192 + (c \div 64), 128 + (c % 64) >>
    ELSE << 224 + (c \div 4096), 128 + ((c \div 64) % 64), 128 + (c % 64) >>

\* str::bytes: the encodings of the chars, one after the other
RECURSIVE bytes(_)
bytes(str) ==
    IF str = << >> THEN << >>
    ELSE IF Len(str) = 1 THEN utf8(str[1])
    ELSE bytes(SubSeq(str, 1, Len(str) \div 2))
           \o bytes(SubSeq(str, Len(str) \div 2 + 1, Len(str)))

\* Mutant: a byte that is no digit is read as an empty field.
prepared_unknown_as_empty(c) ==
    IF c >= One /\ c <= Nine THEN Some(c - 48) ELSE None

\* TryFrom<Vec<u8>>: the closure of map()
prepared(c) ==
    IF c = Dash \/ c = Space THEN None
    ELSE IF c >= One /\ c <= Nine THEN Some(c - 48)
    ELSE Some(InvalidValue)

prepared_vec(vec) == [ i \in 1..Len(vec) |-> prepared(vec[i]) ]

\* impl TryFrom<Vec<u8>> for Board
try_from_bytes(vec) == try_from(prepared_vec(vec))

\* impl TryFrom<&str> for Board
try_from_str(str) == try_from_bytes(bytes(split_whitespace(str)))

(***************************************************************************)
(* impl Display for Field and for Board                                     *)
(***************************************************************************)
\* format!("{val}") of a u8
RECURSIVE decimal(_)
decimal(val) ==
    IF val < 10 THEN << Zero + val >>
    ELSE Append(decimal(val \div 10), Zero + (val % 10))

\* Mutant: an empty field is written as '0'.
Field_fmt_zero_for_empty(f) == IF f = Empty THEN << Zero >> ELSE decimal(f)

Field_fmt(f) == IF f = Empty THEN << Space >> ELSE decimal(f)

Plus == 43
Bar == 124
border_line == << Plus >> \o [ i \in 1..11 |-> Dash ] \o << Plus, LineFeed >>
separator_line ==
    << Plus, Dash, Dash, Dash, Plus, Dash, Dash, Dash, Plus, Dash, Dash, Dash, Plus,
       LineFeed >>

\* The inner loop: the fields of a row, "|" after every third
RECURSIVE columns_fmt(_, _, _)
columns_fmt(b, row, column) ==
    IF column > 8 THEN << >>
    ELSE Field_fmt(b[row][column])
           \o (IF (column + 1) % 3 = 0 THEN << Bar >> ELSE << >>)
           \o columns_fmt(b, row, column + 1)

\* Mutant: a separator after every third row, the last one too.
RECURSIVE rows_fmt_separator_after_last(_, _)
rows_fmt_separator_after_last(b, row) ==
    IF row > 8 THEN << >>
    ELSE << Bar >> \o columns_fmt(b, row, 0) \o << LineFeed >>
           \o (IF (row + 1) % 3 = 0 THEN separator_line ELSE << >>)
           \o rows_fmt_separator_after_last(b, row + 1)

\* The outer loop: the rows, a separator after the third and the sixth
RECURSIVE rows_fmt(_, _)
rows_fmt(b, row) ==
    IF row > 8 THEN << >>
    ELSE << Bar >> \o columns_fmt(b, row, 0) \o << LineFeed >>
           \o (IF (row + 1) % 3 = 0 /\ row # 8 THEN separator_line ELSE << >>)
           \o rows_fmt(b, row + 1)

\* Board::to_string
to_string(b) == border_line \o rows_fmt(b, 0) \o border_line

(***************************************************************************)
(* The texts that are parsed: the "oneeighty" board of the tests (board.rs  *)
(* 551-559), with some characters replaced, the last one dropped or one     *)
(* added, on one line or on nine.                                           *)
(***************************************************************************)
\* At most this many characters of the board are replaced.
MaxEdits == 2

\* 0 stands for '-'
Oneeighty ==
    << 0,3,4,9,0,0,0,2,8,
       2,0,0,0,0,0,0,0,6,
       0,0,0,2,7,1,0,0,0,
       0,0,0,0,0,2,0,6,0,
       4,5,0,0,0,0,0,3,9,
       0,6,0,4,0,0,0,0,0,
       0,0,0,6,1,4,0,0,0,
       3,0,0,0,0,0,0,0,1,
       9,8,0,0,0,3,6,4,0 >>

char_of(d) == IF d = 0 THEN Dash ELSE Zero + d

\* The replacements: those of returns_rule_violations_and_invalid_chars
\* (board.rs 573-581), more '3's that make three cells conflict in a row, a
\* column and a box, '0', a char of two bytes, a space.
Edits ==
    << [at |-> 6, char |-> Zero + 3],
       [at |-> 18, char |-> Zero + 3],
       [at |-> 62, char |-> LetterF],
       [at |-> 64, char |-> Zero + 3],
       [at |-> 4, char |-> Zero + 3],
       [at |-> 10, char |-> Zero + 3],
       [at |-> 40, char |-> Zero],
       [at |-> 80, char |-> EAcute],
       [at |-> 0, char |-> Space] >>

EditSets == { E \in SUBSET (1..Len(Edits)) : Cardinality(E) <= MaxEdits }

edited(E) ==
    [ i \in 1..81 |->
        IF \E e \in E : Edits[e].at = i - 1
        THEN Edits[CHOOSE e \in E : Edits[e].at = i - 1].char
        ELSE char_of(Oneeighty[i]) ]

\* What follows the board's characters
Suffixes == { << >>, << One >>, << LetterF >>, << LineFeed >>, << EAcute >> }

\* A line feed and two spaces after every ninth character
RECURSIVE on_lines(_)
on_lines(str) ==
    IF Len(str) <= 9 THEN str
    ELSE SubSeq(str, 1, 9) \o << LineFeed, Space, Space >>
           \o on_lines(SubSeq(str, 10, Len(str)))

Texts ==
    { IF lines THEN on_lines(SubSeq(edited(E), 1, 81 - drop) \o suffix)
      ELSE SubSeq(edited(E), 1, 81 - drop) \o suffix :
        E \in EditSets, suffix \in Suffixes, drop \in 0..1, lines \in BOOLEAN }

(***************************************************************************)
(* The boards that are rendered, and those the functions of board.rs are    *)
(* called on.                                                               *)
(***************************************************************************)
board_of(vec) == try_from(vec).board

RenderedGrids ==
    { board_of(vec) : vec \in { v \in Inputs : try_from(v).ok } }
        \cup { EmptyBoard, try_from_str([ i \in 1..81 |-> char_of(Oneeighty[i]) ]).board }

Grids ==
    { board_of(Input(Holes(k, 0), None)) : k \in 0..MaxHoles }
        \cup { EmptyBoard, try_from_str([ i \in 1..81 |-> char_of(Oneeighty[i]) ]).board }

\* The lines of a text that ends with a line feed, without their line feeds
lines_of(str) ==
    LET feeds == { i \in 1..Len(str) : str[i] = LineFeed }
        \* the place of the k-th line feed, 0 for k = 0
        feed(k) == IF k = 0 THEN 0
                   ELSE CHOOSE i \in feeds : Cardinality({ j \in feeds : j < i }) = k - 1
    IN  [ k \in 1..Cardinality(feeds) |-> SubSeq(str, feed(k - 1) + 1, feed(k) - 1) ]

\* A reader of a rendering: the 81 cell characters in row-major order (the
\* lines of the rows, without the bars), a blank read as '-'
cell_characters(rendering) ==
    LET lines == lines_of(rendering)
        row_line(row) == lines[2 + row + (row \div 3)]
        cell(row, column) == row_line(row)[2 + column + (column \div 3)]
    IN  [ i \in 1..81 |->
            IF cell((i - 1) \div 9, (i - 1) % 9) = Space THEN Dash
            ELSE cell((i - 1) \div 9, (i - 1) % 9) ]

(***************************************************************************)
(* Direct calls: a text is parsed; a board is rendered, its cell            *)
(* characters are read and parsed; a function of board.rs is called.        *)
(***************************************************************************)
CallsInit ==
    /\ input = << >>
    /\ parsed = None
    /\ op = [name |-> "none", max_solutions |-> None, max_iterations |-> None]
    /\ calls = 0
    /\ board = EmptyBoard
    /\ current_position = from_index(0)
    /\ stack = << >>
    /\ emitted = << >>
    /\ advances = 0
    /\ index = 0
    /\ solution_index = 0
    /\ count = 0
    /\ result = None
    /\ reference = << >>
    /\ first_result = None
    /\ arg_position = from_index(0)
    /\ arg_number = 1
    /\ returned = None
    /\ file = None
    /\ solved_board = EmptyBoard
    /\ renderer_calls = << >>
    /\ stdout = << >>
    /\ exit_code = None
    /\ position_iter = None
    /\ board_iter = None
    /\ yielded = << >>
    /\ \/ pc = "text" /\ text \in Texts /\ grid = None
       \/ pc = "render" /\ text = << >> /\ grid \in { Some(g) : g \in RenderedGrids }
       \/ pc = "call" /\ text = << >> /\ grid \in { Some(g) : g \in Grids }

calls_unchanged ==
    <<calls, engine_vars, chain_vars, result, reference, first_result, cli_vars,
      iter_vars>>

\* Board::try_from(text), text a &str
TryFromStr ==
    /\ pc = "text"
    /\ input' = prepared_vec(bytes(split_whitespace(text)))
    /\ parsed' = Some(try_from_str(text))
    /\ pc' = IF try_from_str(text).ok THEN "parsed" ELSE "parse_error"
    /\ op' = [op EXCEPT !.name = "try_from_str"]
    /\ UNCHANGED <<text, grid, arg_position, arg_number, returned, calls_unchanged>>

\* Board::try_from(text), text a Vec<u8>
TryFromBytes ==
    /\ pc = "text"
    /\ \A i \in 1..Len(text) : text[i] < 256
    /\ input' = prepared_vec(text)
    /\ parsed' = Some(try_from_bytes(text))
    /\ pc' = IF try_from_bytes(text).ok THEN "parsed" ELSE "parse_error"
    /\ op' = [op EXCEPT !.name = "try_from_bytes"]
    /\ UNCHANGED <<text, grid, arg_position, arg_number, returned, calls_unchanged>>

\* board.to_string()
Render ==
    /\ pc = "render"
    /\ returned' = Some(to_string(grid[1]))
    /\ pc' = "rendered"
    /\ op' = [op EXCEPT !.name = "to_string"]
    /\ UNCHANGED <<input, parsed, text, grid, arg_position, arg_number, calls_unchanged>>

\* The cell characters of the rendering become the text to parse.
ReadCells ==
    /\ pc = "rendered"
    /\ text' = cell_characters(returned[1])
    /\ pc' = "text"
    /\ UNCHANGED <<input, parsed, op, grid, arg_position, arg_number, returned,
                   calls_unchanged>>

\* board.next_empty_field(position)
NextEmptyField ==
    /\ pc = "call"
    /\ \E p \in Positions :
          /\ arg_position' = p
          /\ returned' = Some(next_empty_field(grid[1], p))
    /\ pc' = "returned"
    /\ op' = [op EXCEPT !.name = "next_empty_field"]
    /\ UNCHANGED <<input, parsed, text, grid, arg_number, calls_unchanged>>

\* board.valid_number_at_position(position, &Field::from_u8(number))
ValidNumberAtPosition ==
    /\ pc = "call"
    /\ \E p \in Positions, n \in 1..9 :
          /\ arg_position' = p
          /\ arg_number' = n
          /\ returned' = Some(valid_number_at_position(grid[1], p, from_u8(n)))
    /\ pc' = "returned"
    /\ op' = [op EXCEPT !.name = "valid_number_at_position"]
    /\ UNCHANGED <<input, parsed, text, grid, calls_unchanged>>

CallsNext ==
    \/ TryFromStr
    \/ TryFromBytes
    \/ Render
    \/ ReadCells
    \/ NextEmptyField
    \/ ValidNumberAtPosition

Calls == CallsInit /\ [][CallsNext]_vars

(***************************************************************************)
(* The command line program, examples/cli/main.rs: main sets the renderer   *)
(* up, solve reads the file, parses it and pulls pairs from solve_iter,     *)
(* showing each, until one is solved or the engine returns None; main shows *)
(* the final result or prints the error, tears the renderer down and exits. *)
(***************************************************************************)
\* The content of a file that holds an input of the solver, '-' for an empty field
file_of(vec) == [ i \in 1..Len(vec) |-> IF vec[i] = None THEN Dash ELSE Zero + vec[i][1] ]

\* What fs::read_to_string returns: an error (None), the inputs of the solver,
\* and the texts that are not parsed
Files ==
    { None } \cup { Some(file_of(vec)) : vec \in Inputs }
        \cup { Some(t) : t \in { str \in Texts : ~try_from_str(str).ok } }

\* A call of a method of SudokuRenderer
renderer_call(name, arg) == [call |-> name, arg |-> arg]

CliInit ==
    /\ input = << >>
    /\ parsed = None
    /\ pc = "main"
    /\ op = [name |-> "none", max_solutions |-> None, max_iterations |-> None]
    /\ calls = 0
    /\ board = EmptyBoard
    /\ current_position = from_index(0)
    /\ stack = << >>
    /\ emitted = << >>
    /\ advances = 0
    /\ index = 0
    /\ solution_index = 0
    /\ count = 0
    /\ result = None
    /\ reference = << >>
    /\ first_result = None
    /\ text = << >>
    /\ grid = None
    /\ arg_position = from_index(0)
    /\ arg_number = 1
    /\ returned = None
    /\ file \in Files
    /\ solved_board = EmptyBoard
    /\ renderer_calls = << >>
    /\ stdout = << >>
    /\ exit_code = None
    /\ position_iter = None
    /\ board_iter = None
    /\ yielded = << >>

cli_unchanged ==
    <<input, chain_vars, reference, first_result, text, grid, arg_position, arg_number,
      returned, file, iter_vars>>

\* main, up to the call of solve: renderer.setup(filename)
main_setup ==
    /\ pc = "main"
    /\ renderer_calls' = Append(renderer_calls, renderer_call("setup", None))
    /\ pc' = "solve"
    /\ UNCHANGED <<cli_unchanged, parsed, op, calls, engine_vars, result, solved_board,
                   stdout, exit_code>>

\* solve, up to the first turn of the for loop: the file is read and parsed,
\* each error returned by `?`, and board.solve_iter() creates the engine.
solve ==
    /\ pc = "solve"
    /\ IF file = None
       THEN /\ result' = Some(Err("io::Error"))
            /\ pc' = "solved"
            /\ UNCHANGED <<parsed, op, calls, engine_vars, solved_board>>
       ELSE /\ parsed' = Some(try_from_str(file[1]))
            /\ IF ~try_from_str(file[1]).ok
               THEN /\ result' = Some(Err(try_from_str(file[1]).error))
                    /\ pc' = "solved"
                    /\ UNCHANGED <<op, calls, engine_vars, solved_board>>
               ELSE /\ solved_board' = try_from_str(file[1]).board
                    /\ op' = [op EXCEPT !.name = "solve"]
                    /\ calls' = calls + 1
                    /\ board' = try_from_str(file[1]).board
                    /\ current_position' = [row |-> 0, column |-> 0]
                    /\ stack' = << >>
                    /\ emitted' = << >>
                    /\ advances' = 0
                    /\ result' = None
                    /\ pc' = "next"
    /\ UNCHANGED <<cli_unchanged, renderer_calls, stdout, exit_code>>

\* Mutant: the loop is left before the solved board is shown.
solve_for_break_before_display_step ==
    /\ pc = "item"
    /\ op.name = "solve"
    /\ LET item == Last(emitted)
       IN  IF item = None
           THEN /\ result' = Some(Ok(solved_board))
                /\ pc' = "solved"
                /\ UNCHANGED <<renderer_calls, solved_board>>
           ELSE IF item[1].is_solved
                THEN /\ renderer_calls' = renderer_calls
                     /\ solved_board' = item[1].board
                     /\ result' = Some(Ok(item[1].board))
                     /\ pc' = "solved"
                ELSE /\ renderer_calls' =
                            Append(renderer_calls,
                                   renderer_call("display_step", Some(item[1].board)))
                     /\ UNCHANGED <<solved_board, result>>
                     /\ pc' = "next"
    /\ UNCHANGED <<cli_unchanged, parsed, op, calls, engine_vars, stdout, exit_code>>

\* solve: one turn of `for (board_snapshot, is_solved) in board.solve_iter()`
\* on the item next() returned, and the return of Ok(solved_board)
solve_for ==
    /\ pc = "item"
    /\ op.name = "solve"
    /\ LET item == Last(emitted)
       IN  IF item = None
           THEN /\ result' = Some(Ok(solved_board))
                /\ pc' = "solved"
                /\ UNCHANGED <<renderer_calls, solved_board>>
           ELSE /\ renderer_calls' =
                       Append(renderer_calls,
                              renderer_call("display_step", Some(item[1].board)))
                /\ IF item[1].is_solved
                   THEN /\ solved_board' = item[1].board
                        /\ result' = Some(Ok(item[1].board))
                        /\ pc' = "solved"
                   ELSE /\ UNCHANGED <<solved_board, result>>
                        /\ pc' = "next"
    /\ UNCHANGED <<cli_unchanged, parsed, op, calls, engine_vars, stdout, exit_code>>

\* main: the arm Ok(board) of match solve(filename, &renderer)
main_Ok ==
    /\ pc = "solved"
    /\ result[1].ok
    /\ renderer_calls' =
           renderer_calls \o << renderer_call("display_final_result", Some(result[1].board)),
                                renderer_call("teardown", None) >>
    /\ exit_code' = Some(0)
    /\ pc' = "exited"
    /\ UNCHANGED <<cli_unchanged, parsed, op, calls, engine_vars, result, solved_board,
                   stdout>>

\* main: the arm Err(error)
main_Err ==
    /\ pc = "solved"
    /\ ~result[1].ok
    /\ stdout' = Append(stdout, << "Error: ", result[1].error >>)
    /\ renderer_calls' = Append(renderer_calls, renderer_call("teardown", None))
    /\ exit_code' = Some(1)
    /\ pc' = "exited"
    /\ UNCHANGED <<cli_unchanged, parsed, op, calls, engine_vars, result, solved_board>>

CliNext ==
    \/ main_setup
    \/ solve
    \/ next
    \/ execute_TryValue
    \/ execute_BackTo
    \/ execute_RanOutOfStack
    \/ solve_for
    \/ main_Ok
    \/ main_Err

Cli == CliInit /\ [][CliNext]_vars

(***************************************************************************)
(* position_iter.rs: a PositionIter created at the position of an index and *)
(* asked for its items, until None and a few times more.                    *)
(***************************************************************************)
IterInit ==
    /\ input = << >>
    /\ parsed = None
    /\ pc = "idle"
    /\ op = [name |-> "none", max_solutions |-> None, max_iterations |-> None]
    /\ calls = 0
    /\ board = EmptyBoard
    /\ current_position = from_index(0)
    /\ stack = << >>
    /\ emitted = << >>
    /\ advances = 0
    /\ index = 0
    /\ solution_index = 0
    /\ count = 0
    /\ result = None
    /\ reference = << >>
    /\ first_result = None
    /\ text = << >>
    /\ grid = None
    /\ arg_position = from_index(0)
    /\ arg_number = 0
    /\ returned = None
    /\ file = None
    /\ solved_board = EmptyBoard
    /\ renderer_calls = << >>
    /\ stdout = << >>
    /\ exit_code = None
    /\ position_iter = None
    /\ board_iter = None
    /\ yielded = << >>

iter_unchanged ==
    <<input, parsed, calls, engine_vars, chain_vars, result, reference, first_result,
      text, cli_vars>>

\* The number of None items an iterator has returned
nones(items) == Cardinality({ k \in 1..Len(items) : items[k] = None })

\* PositionIter::new(Position::from_index(i)); from_first_field is the case i = 0
PositionIter_new ==
    /\ pc = "idle"
    /\ \E i \in 0..80 :
          /\ arg_number' = i
          /\ arg_position' = from_index(i)
          /\ position_iter' = Some([position |-> Some(from_index(i))])
    /\ pc' = "position_iter"
    /\ op' = [op EXCEPT !.name = "PositionIter"]
    /\ UNCHANGED <<iter_unchanged, grid, returned, board_iter, yielded>>

\* PositionIter::next
PositionIter_next ==
    /\ pc = "position_iter"
    /\ nones(yielded) <= MaxPollsAfterNone
    /\ LET self == position_iter[1]
       IN  IF self.position # None
           THEN /\ position_iter' =
                       Some([position |-> incremented_copy(self.position[1])])
                /\ yielded' = Append(yielded, Some(self.position[1]))
           ELSE /\ yielded' = Append(yielded, None)
                /\ UNCHANGED position_iter
    /\ UNCHANGED <<iter_unchanged, pc, op, grid, arg_position, arg_number, returned,
                   board_iter>>

PositionIterNext ==
    \/ PositionIter_new
    \/ PositionIter_next

PositionIterating == IterInit /\ [][PositionIterNext]_vars

(***************************************************************************)
(* src/sudoku, the board of the first generation of the program:            *)
(* position.rs, iter.rs and SudokuBoard::next_empty_field.  SudokuField is  *)
(* Value(u8) or Empty as Field is, SudokuBoard is [[SudokuField; 9]; 9].    *)
(***************************************************************************)
\* impl From<usize> for Position
Position_from(coords) == [row |-> coords \div 9, column |-> coords % 9]

Position_increment(self) ==
    LET new_position == self.row * 9 + self.column + 1
    IN  Position_from(new_position)

\* Mutant: (0..=9).contains(&self.row)
Position_is_valid_through_9(self) ==
    (0 <= self.row /\ self.row <= 9) /\ (0 <= self.column /\ self.column <= 8)

Position_is_valid(self) ==
    (0 <= self.row /\ self.row <= 8) /\ (0 <= self.column /\ self.column <= 8)

\* The bounds check of self.0[position.row][position.column]: outside, the
\* indexing panics
index_in_bounds(position) == position.row < 9 /\ position.column < 9

SudokuBoard_get_field(b, position) == b[position.row][position.column]

\* self.into_iter().set_position(position).find(|(_, field)| field.is_empty())
\*     .map(|(position, _)| position):
\* found_from[p] is the outcome of find() when BoardIter.position is p.
SudokuBoard_next_empty_field(b, position) ==
    LET found_from[p \in { Position_from(coords) : coords \in 0..81 }] ==
            IF ~Position_is_valid(p)
            THEN [panicked |-> FALSE, found |-> None]
            ELSE IF ~index_in_bounds(p)
            THEN [panicked |-> TRUE, found |-> None]
            ELSE IF is_empty(SudokuBoard_get_field(b, p))
            THEN [panicked |-> FALSE, found |-> Some(p)]
            ELSE found_from[Position_increment(p)]
    IN  found_from[position]

\* board.into_iter().set_position(position), position a valid one
BoardIter_set_position ==
    /\ pc = "idle"
    /\ \E b \in Grids, position \in Positions :
          /\ grid' = Some(b)
          /\ arg_position' = position
          /\ board_iter' = Some([board |-> b, position |-> position])
    /\ pc' = "board_iter"
    /\ op' = [op EXCEPT !.name = "BoardIter"]
    /\ UNCHANGED <<iter_unchanged, arg_number, returned, position_iter, yielded>>

\* BoardIter::next
BoardIter_next ==
    /\ pc = "board_iter"
    /\ nones(yielded) <= MaxPollsAfterNone
    /\ LET self == board_iter[1]
       IN  IF Position_is_valid(self.position)
           THEN IF ~index_in_bounds(self.position)
                THEN /\ pc' = "panicked"
                     /\ UNCHANGED <<board_iter, yielded>>
                ELSE LET value == SudokuBoard_get_field(self.board, self.position)
                         position == self.position
                     IN  /\ board_iter' =
                                Some([self EXCEPT
                                        !.position = Position_increment(self.position)])
                         /\ yielded' = Append(yielded, Some(<<position, value>>))
                         /\ pc' = pc
           ELSE /\ yielded' = Append(yielded, None)
                /\ UNCHANGED <<board_iter, pc>>
    /\ UNCHANGED <<iter_unchanged, op, grid, arg_position, arg_number, returned,
                   position_iter>>

\* board.next_empty_field(position), position a valid one
SudokuNextEmptyField ==
    /\ pc = "idle"
    /\ \E b \in Grids, position \in Positions :
          /\ grid' = Some(b)
          /\ arg_position' = position
          /\ LET outcome == SudokuBoard_next_empty_field(b, position)
             IN  IF outcome.panicked
                 THEN returned' = None /\ pc' = "panicked"
                 ELSE returned' = Some(outcome.found) /\ pc' = "returned"
    /\ op' = [op EXCEPT !.name = "SudokuBoard::next_empty_field"]
    /\ UNCHANGED <<iter_unchanged, arg_number, iter_vars>>

BoardIterNext ==
    \/ BoardIter_set_position
    \/ BoardIter_next
    \/ SudokuNextEmptyField

BoardIterating == IterInit /\ [][BoardIterNext]_vars

(***************************************************************************)
(* field.rs: Field::new called on every u8, and the engine on the inputs    *)
(* and on inputs that hold a value outside 1..9 (which are not parsed).     *)
(***************************************************************************)
\* The values of a u8
u8 == 0..255

\* The values outside 1..9 an input holds: 0, 10 and the one Vec<u8> inputs
\* are given for an unknown character
OutOfRange == { 0, 10, InvalidValue }

\* The cell that holds it, (4,4)
DigitCell == 40

DigitInputs ==
    { [Input(Holes(k, 0), None) EXCEPT ![DigitCell + 1] = Some(v)] :
        k \in { 0, MaxHoles }, v \in OutOfRange }

FieldsInit ==
    /\ input \in Inputs \cup NineInputs \cup DigitInputs
    /\ parsed = None
    /\ pc = "start"
    /\ op = [name |-> "none", max_solutions |-> None, max_iterations |-> None]
    /\ calls = 0
    /\ board = EmptyBoard
    /\ current_position = from_index(0)
    /\ stack = << >>
    /\ emitted = << >>
    /\ advances = 0
    /\ index = 0
    /\ solution_index = 0
    /\ count = 0
    /\ result = None
    /\ reference = << >>
    /\ first_result = None
    /\ text = << >>
    /\ grid = None
    /\ arg_position = from_index(0)
    /\ arg_number = 1
    /\ returned = None
    /\ file = None
    /\ solved_board = EmptyBoard
    /\ renderer_calls = << >>
    /\ stdout = << >>
    /\ exit_code = None
    /\ position_iter = None
    /\ board_iter = None
    /\ yielded = << >>

\* Field::new(digit), called by a user of the crate; the call does not depend on
\* the input, it is made in the runs on the input without empty field.
FieldNew ==
    /\ pc = "start"
    /\ input = Input({}, None)
    /\ \E digit \in u8 :
          /\ arg_number' = digit
          /\ returned' = Some(Field_new(digit))
    /\ pc' = "returned"
    /\ op' = [op EXCEPT !.name = "Field::new"]
    /\ UNCHANGED <<input, parsed, text, grid, arg_position, calls_unchanged>>

FieldsNext ==
    \/ FieldNew
    \/ Advance

Fields == FieldsInit /\ [][FieldsNext]_vars

(***************************************************************************)
(* Vocabulary of the properties                                            *)
(***************************************************************************)
\* The cell of 3x3 box k (0..8) at place i (0..8) within the box
box_cell(b, k, i) == b[(k \div 3) * 3 + (i \div 3)][(k % 3) * 3 + (i % 3)]

\* No digit twice in a row, a column or a box
obeys_rule(b) ==
    \A k \in 0..8 : \A i \in 0..7 : \A j \in (i + 1)..8 :
        /\ is_filled(b[k][i]) => b[k][i] # b[k][j]
        /\ is_filled(b[i][k]) => b[i][k] # b[j][k]
        /\ is_filled(box_cell(b, k, i)) => box_cell(b, k, i) # box_cell(b, k, j)

is_full(b) == \A r \in 0..8 : \A c \in 0..8 : is_filled(b[r][c])

filled_cells(b) == { i \in 0..80 : is_filled(get_field(b, from_index(i))) }

\* The item the engine returned last
has_item == emitted # << >>
last_item == Last(emitted)
has_pair == has_item /\ last_item # None
last_pair == last_item[1]

parse_ok == parsed # None /\ parsed[1].ok
the_board == parsed[1].board

(***************************************************************************)
(* C1: every successfully parsed grid and every snapshot the engine emits  *)
(* has no digit twice in any row, column or 3x3 box.                        *)
(***************************************************************************)
\* (parsed never changes after TryFrom, and every item is the last item, with
\* pc = "item", in the state that follows its emission.)
C1_NoDigitTwice ==
    /\ pc = "parsed" => obeys_rule(the_board)
    /\ pc = "item" /\ has_pair => obeys_rule(last_pair.board)

\* A snapshot emitted after the engine has backtracked: it has no more filled
\* cells than the snapshot before it.
C1_Witness ==
    /\ pc = "item" /\ has_pair /\ Len(emitted) >= 2
    /\ emitted[Len(emitted) - 1] # None
    /\ Cardinality(filled_cells(last_pair.board))
         <= Cardinality(filled_cells(emitted[Len(emitted) - 1][1].board))

(***************************************************************************)
(* C2: a pair is emitted with is_complete = true exactly when its grid has *)
(* no Empty cell anywhere (not only from the cursor on).                   *)
(***************************************************************************)
C2_CompleteIffFull ==
    pc = "item" /\ has_pair => (last_pair.is_solved <=> is_full(last_pair.board))

\* A complete pair emitted with the cursor past the first cell, and an
\* incomplete one emitted earlier by the same engine.
C2_Witness ==
    /\ pc = "item" /\ has_pair /\ last_pair.is_solved
    /\ linear(current_position) > 0
    /\ Len(emitted) >= 2 /\ emitted[1] # None /\ ~emitted[1][1].is_solved

(***************************************************************************)
(* The valid completions of a grid b: the full grids obeying the rule that *)
(* agree with b on b's filled cells, by the recursive formulation.          *)
(***************************************************************************)
\* d is in no cell of the row, the column and the box of cell (r, c)
fits(b, r, c, d) ==
    \A k \in 0..8 :
        /\ b[r][k] # d
        /\ b[k][c] # d
        /\ b[(r \div 3) * 3 + (k \div 3)][(c \div 3) * 3 + (k % 3)] # d

RECURSIVE completions(_)
completions(b) ==
    IF is_full(b) THEN (IF obeys_rule(b) THEN {b} ELSE {})
    ELSE LET i == CHOOSE i \in 0..80 : is_empty(b[i \div 9][i % 9])
             r == i \div 9
             c == i % 9
         IN  UNION { completions([b EXCEPT ![r][c] = d]) :
                       d \in { e \in 1..9 : fits(b, r, c, e) } }

\* b1 is before b2 in the lexicographic order of the 81 cells read row-major
lex_less(b1, b2) ==
    \E i \in 0..80 :
        /\ \A j \in 0..(i - 1) : b1[j \div 9][j % 9] = b2[j \div 9][j % 9]
        /\ b1[i \div 9][i % 9] < b2[i \div 9][i % 9]

lex_least(boards) == CHOOSE b \in boards : \A other \in boards \ {b} : lex_less(b, other)

Min(a, b) == IF a <= b THEN a ELSE b

\* The engine has just returned its first None.
first_exhaustion ==
    /\ pc = "item" /\ has_item /\ last_item = None
    /\ Len(emitted) = some_prefix_len(emitted) + 1

\* The indices of the pairs of a sequence that have is_solved = true
solved_indices(pairs) == { k \in 1..Len(pairs) : pairs[k].is_solved }

\* The second operation runs after a solve_iter that was polled until None:
\* reference holds the engine's whole sequence on the parsed board.
after_solve_iter == calls >= 2 /\ first_result = None

reference_pairs == pairs_before_none(reference)

(***************************************************************************)
(* C3: driving the engine until exhaustion emits every valid completion of *)
(* the initial grid as a pair with is_complete = true, each exactly once.   *)
(***************************************************************************)
every_completion_once ==
    LET pairs == pairs_before_none(emitted)
    IN  /\ { pairs[k].board : k \in solved_indices(pairs) } = completions(the_board)
        /\ \A j, k \in 1..Len(pairs) :
              j # k /\ pairs[j].is_solved => pairs[j].board # pairs[k].board

C3_EveryCompletionOnce ==
    first_exhaustion /\ op.name = "solve_iter" => every_completion_once

\* The same for the grids that have an Empty cell, where it holds.
EveryCompletionOnce_WithEmptyCell ==
    first_exhaustion /\ op.name = "solve_iter" /\ ~is_full(the_board)
        => every_completion_once

(***************************************************************************)
(* C4: the complete grids are emitted in strictly increasing lexicographic *)
(* order, so first_solution returns the least valid completion.             *)
(***************************************************************************)
complete_grids_increase ==
    pc = "item" /\ has_pair /\ last_pair.is_solved /\ ~has_returned_none(emitted)
        => \A k \in 1..(Len(emitted) - 1) :
              emitted[k][1].is_solved => lex_less(emitted[k][1].board, last_pair.board)

C4_LexicographicOrder ==
    /\ complete_grids_increase
    /\ pc = "done" /\ op.name = "first_solution" /\ completions(the_board) # {}
         => result = Some(Ok(lex_least(completions(the_board))))

\* The same for the grids that have an Empty cell, where it holds.
LexicographicOrder_WithEmptyCell ==
    /\ complete_grids_increase
    /\ pc = "done" /\ op.name = "first_solution" /\ completions(the_board) # {}
          /\ ~is_full(the_board)
         => result = Some(Ok(lex_least(completions(the_board))))

(***************************************************************************)
(* C5: first_solution returns Ok with the grid of the first pair of the    *)
(* engine's sequence that has is_complete = true, and Err(Unsolvable)       *)
(* exactly when the sequence ends without such a pair.                      *)
(***************************************************************************)
C5_FirstSolutionIsFirstCompletePair ==
    pc = "done" /\ op.name = "first_solution" /\ after_solve_iter =>
        LET solved == solved_indices(reference_pairs)
        IN  IF solved = {}
            THEN result = Some(Err("Unsolvable"))
            ELSE /\ result # Some(Err("Unsolvable"))
                 /\ result = Some(Ok(reference_pairs[
                        CHOOSE k \in solved : \A j \in solved : k <= j].board))

\* first_solution returned a grid that the engine did not emit first.
C5_Witness ==
    /\ pc = "done" /\ op.name = "first_solution" /\ after_solve_iter
    /\ result[1].ok
    /\ ~reference_pairs[1].is_solved
    /\ Len(emitted) >= 3

(***************************************************************************)
(* C6: first_solution returns Err(Unsolvable) only for a grid without a     *)
(* valid completion; for every other grid, a completely filled one          *)
(* included, it returns Ok with a valid completion.                         *)
(***************************************************************************)
C6_UnsolvableOnlyWithoutCompletion ==
    pc = "done" /\ op.name = "first_solution" /\ completions(the_board) # {}
        => result[1].ok /\ result[1].board \in completions(the_board)

\* The same for the grids that have an Empty cell, where it holds.
UnsolvableOnlyWithoutCompletion_WithEmptyCell ==
    pc = "done" /\ op.name = "first_solution" /\ completions(the_board) # {}
          /\ ~is_full(the_board)
        => result[1].ok /\ result[1].board \in completions(the_board)

(***************************************************************************)
(* C7: count_solutions returns min(max_solutions, the number of pairs with *)
(* is_complete = true among the first max_iterations pairs of the engine's  *)
(* sequence), an absent cap being unbounded.                                *)
(***************************************************************************)
solutions_within(max_iterations) ==
    LET n == IF max_iterations = None THEN Len(reference_pairs)
             ELSE Min(max_iterations[1], Len(reference_pairs))
    IN  Cardinality({ k \in 1..n : reference_pairs[k].is_solved })

C7_CountIsCappedCount ==
    pc = "done" /\ op.name = "count_solutions" =>
        LET within == solutions_within(op.max_iterations)
        IN  /\ result = Some(IF op.max_solutions = None THEN within
                             ELSE Min(op.max_solutions[1], within))
            /\ op.max_iterations = Some(0) => result = Some(0)
            /\ op.max_solutions # None /\ within >= op.max_solutions[1]
                 => result = op.max_solutions

\* Both caps are set and the iteration cap cuts the engine's sequence before
\* its second solution: one solution is counted, the engine has emitted two.
C7_Witness ==
    /\ pc = "done" /\ op.name = "count_solutions"
    /\ op.max_solutions = Some(1) /\ op.max_iterations # None
    /\ op.max_iterations[1] < Len(reference_pairs)
    /\ solutions_within(op.max_iterations) = 1
    /\ solutions_within(None) = 2
    /\ result = Some(1)

(***************************************************************************)
(* C8: count_solutions stops driving the engine as soon as a cap is        *)
(* reached: no advance once the counted solutions equal max_solutions or    *)
(* the advances performed equal max_iterations.                             *)
(***************************************************************************)
\* (pc = "execute_stack": next() has been called and is running; count is
\* what it was when next() was called.)
C8_NoAdvancePastACap ==
    op.name = "count_solutions" =>
        /\ op.max_iterations # None => advances <= op.max_iterations[1]
        /\ op.max_solutions # None /\ count = op.max_solutions[1]
             => pc # "execute_stack"

(***************************************************************************)
(* C9: on a grid with exactly one valid completion count_solutions returns *)
(* 1 when both caps are None, and when max_solutions >= 1 and               *)
(* max_iterations is at least the number of pairs the engine emits.         *)
(***************************************************************************)
generous_caps ==
    \/ op.max_solutions = None /\ op.max_iterations = None
    \/ /\ op.max_solutions # None /\ op.max_solutions[1] >= 1
       /\ op.max_iterations # None /\ op.max_iterations[1] >= Len(reference_pairs)

C9_UniqueSolutionCountsOne ==
    pc = "done" /\ op.name = "count_solutions" /\ generous_caps
          /\ Cardinality(completions(the_board)) = 1
        => result = Some(1)

\* The same for the grids that have an Empty cell, where it holds.
UniqueSolutionCountsOne_WithEmptyCell ==
    pc = "done" /\ op.name = "count_solutions" /\ generous_caps
          /\ Cardinality(completions(the_board)) = 1 /\ ~is_full(the_board)
        => result = Some(1)

(***************************************************************************)
(* C10: two engines created from equal grids return equal items at every   *)
(* index, None included, and first_solution called twice on a grid returns  *)
(* equal results.                                                           *)
(***************************************************************************)
C10_Deterministic ==
    /\ pc = "item" /\ calls = 2 /\ op.name = "solve_iter"
          /\ Len(emitted) <= Len(reference)
         => last_item = reference[Len(emitted)]
    /\ pc = "done" /\ calls = 2 /\ op.name = "first_solution" /\ first_result # None
         => result = first_result

\* The second engine has just repeated the first one's None after at least
\* three pairs.
C10_Witness ==
    /\ pc = "item" /\ calls = 2 /\ op.name = "solve_iter"
    /\ Len(emitted) = Len(reference) /\ Len(emitted) >= 4
    /\ last_item = None

(***************************************************************************)
(* C11: on every valid initial grid, an engine that is advanced again and   *)
(* again signals exhaustion after finitely many advances, and no single     *)
(* advance runs forever.                                                    *)
(***************************************************************************)
C11_SearchTerminates ==
    /\ (pc = "next") ~> (pc = "item")
    /\ (pc = "next" /\ op.name = "solve_iter")
          ~> (pc = "item" /\ op.name = "solve_iter" /\ has_returned_none(emitted))

\* Exhaustion signalled after a search of at least five pairs that found no
\* solution.
C11_Witness ==
    /\ first_exhaustion /\ op.name = "solve_iter"
    /\ Len(emitted) >= 6
    /\ solved_indices(pairs_before_none(emitted)) = {}

(***************************************************************************)
(* C12: advancing an engine changes no grid held outside it: the items it   *)
(* returned stay as they were returned, the parsed grid an operation was    *)
(* called on is the same afterwards, and so first_solution and              *)
(* count_solutions return the same whether called before or after the       *)
(* other.                                                                   *)
(***************************************************************************)
\* What first_solution and count_solutions(None, None) return on the parsed
\* board, by the engine's sequence on it
expected_result(name) ==
    LET solved == solved_indices(reference_pairs)
    IN  IF name = "count_solutions" THEN Some(Cardinality(solved))
        ELSE IF solved = {} THEN Some(Err("Unsolvable"))
        ELSE Some(Ok(reference_pairs[CHOOSE k \in solved : \A j \in solved : k <= j].board))

same_in_either_order ==
    pc = "done" /\ after_solve_iter /\ op.name \in {"first_solution", "count_solutions"}
          /\ op.max_solutions = None /\ op.max_iterations = None
        => result = expected_result(op.name)

held_outside_unchanged ==
    /\ parsed # None => parsed' = parsed
    /\ calls' = calls =>
          /\ reference' = reference
          /\ Len(emitted') >= Len(emitted)
          /\ \A k \in 1..Len(emitted) : emitted'[k] = emitted[k]

C12_NothingOutsideTheEngineChanges ==
    [][held_outside_unchanged]_vars /\ []same_in_either_order

\* first_solution has returned a grid after a count_solutions on the same
\* parsed board that went through at least five pairs.
C12_Witness ==
    /\ pc = "done" /\ calls = 3 /\ op.name = "first_solution"
    /\ result[1].ok
    /\ Len(reference_pairs) >= 5

(***************************************************************************)
(* Vocabulary of the parsing properties                                     *)
(***************************************************************************)
parse_done ==
    pc \in {"parsed", "parse_error"} /\ op.name \in {"try_from_str", "try_from_bytes"}

InvalidLength == [ok |-> FALSE, error |-> "InvalidLength", errors |-> {}]

\* The characters of a text that are not discarded as whitespace
meaningful(str) == SelectSeq(str, LAMBDA c : c \notin {Tab, LineFeed, 11, 12, 13, Space})

\* The entries of the input: the characters left of a &str, as bytes, or the
\* bytes of a Vec<u8>
entries == IF op.name = "try_from_str" THEN bytes(meaningful(text)) ELSE text

is_digit_entry(e) == e \in One..Nine
is_empty_entry(e) == e \in {Dash, Space}

\* The positions of the entries e that are neither empty nor a digit 1..9
invalid_positions(e) ==
    { from_index(i - 1) : i \in { j \in 1..81 :
          ~is_digit_entry(e[j]) /\ ~is_empty_entry(e[j]) } }

\* The grid of the entries e, an entry that is no digit being Empty
lenient_grid(e) ==
    [ r \in 0..8 |-> [ c \in 0..8 |->
        IF is_digit_entry(e[r * 9 + c + 1]) THEN e[r * 9 + c + 1] - Zero ELSE Empty ] ]

\* p and q are two cells of one row, one column or one box
share_unit(p, q) ==
    /\ p # q
    /\ \/ p.row = q.row
       \/ p.column = q.column
       \/ p.row \div 3 = q.row \div 3 /\ p.column \div 3 = q.column \div 3

\* The cells other than p of p's row, of p's column and of p's box
row_mates(p) == { [row |-> p.row, column |-> c] : c \in (0..8) \ {p.column} }
column_mates(p) == { [row |-> r, column |-> p.column] : r \in (0..8) \ {p.row} }
box_mates(p) ==
    { [row |-> (p.row \div 3) * 3 + (k \div 3), column |-> (p.column \div 3) * 3 + (k % 3)] :
        k \in 0..8 } \ {p}

\* The cells of a set that hold the digit d in g
holding(g, cells, d) == { q \in cells : g[q.row][q.column] = d }

\* The filled cells of g whose digit is also in another cell of a unit of theirs
conflicting_positions(g) ==
    { p \in Positions :
        /\ g[p.row][p.column] # Empty
        /\ holding(g, row_mates(p) \cup column_mates(p) \cup box_mates(p),
                   g[p.row][p.column]) # {} }

errors_of(r) == IF r.ok THEN {} ELSE r.errors

\* The positions reported with a kind of error
reported(kind) == { e[1] : e \in { x \in errors_of(parsed[1]) : x[2] = kind } }

(***************************************************************************)
(* C13: an input whose length, whitespace left out for a text, is not 81    *)
(* fails with InvalidLength and nothing else, whatever its characters.      *)
(***************************************************************************)
C13_InvalidLengthWins ==
    parse_done =>
        LET length == IF op.name = "try_from_str" THEN Len(meaningful(text))
                      ELSE Len(text)
        IN  length # 81 => parsed[1] = InvalidLength

\* The same with the length of a text counted in the bytes of its UTF-8
\* encoding, where it holds.
InvalidLengthWins_InBytes ==
    parse_done => (Len(entries) # 81 => parsed[1] = InvalidLength)

(***************************************************************************)
(* C14: for an input of 81 entries, InvalidCharacter is reported at exactly *)
(* the positions whose entry is neither empty ('-' or space) nor a digit    *)
(* 1..9, at all of them, and such a position counts as Empty: it is not      *)
(* reported as a rule violation.                                            *)
(***************************************************************************)
C14_InvalidCharactersReported ==
    parse_done /\ Len(entries) = 81 =>
        LET invalid == invalid_positions(entries)
        IN  /\ reported("InvalidCharacter") = invalid
            /\ reported("SudokuRuleViolation") \cap invalid = {}

\* Two invalid entries, '0' among them, reported together with rule violations
C14_Witness ==
    /\ parse_done /\ Len(entries) = 81
    /\ Cardinality(reported("InvalidCharacter")) = 2
    /\ \E i \in 1..81 : entries[i] = Zero
    /\ reported("SudokuRuleViolation") # {}

(***************************************************************************)
(* C15: for an input of 81 entries, RuleViolation is reported at exactly    *)
(* the filled positions of the leniently built grid whose digit is also at  *)
(* another position of their row, column or box: both cells of a pair.       *)
(***************************************************************************)
C15_RuleViolationsReported ==
    parse_done /\ Len(entries) = 81 =>
        reported("SudokuRuleViolation") = conflicting_positions(lenient_grid(entries))

\* Two cells that conflict in a box and in no row or column are both reported.
C15_Witness ==
    /\ parse_done /\ Len(entries) = 81
    /\ LET g == lenient_grid(entries)
       IN  \E p, q \in reported("SudokuRuleViolation") :
               /\ share_unit(p, q) /\ p.row # q.row /\ p.column # q.column
               /\ g[p.row][p.column] = g[q.row][q.column]

(***************************************************************************)
(* C16: parsing an input of 81 entries returns Ok(g) exactly when there is  *)
(* no invalid character and no rule violation, g holding the input's        *)
(* entries; otherwise Err(ParseErrors(S)), S the non-empty union of the two  *)
(* sets, and no grid.                                                       *)
(***************************************************************************)
C16_OkIffNoErrors ==
    parse_done /\ Len(entries) = 81 =>
        LET g == lenient_grid(entries)
            S == { <<p, "InvalidCharacter">> : p \in invalid_positions(entries) }
                   \cup { <<p, "SudokuRuleViolation">> : p \in conflicting_positions(g) }
        IN  IF S = {}
            THEN parsed[1] = [ok |-> TRUE, board |-> g]
            ELSE parsed[1] = [ok |-> FALSE, error |-> "ParseErrors", errors |-> S]

\* Ok for a Vec<u8> whose first entry is a space
C16_Witness ==
    /\ pc = "parsed" /\ op.name = "try_from_bytes"
    /\ entries[1] = Space
    /\ parsed[1].board[0][0] = Empty /\ parsed[1].board[0][1] = 3

(***************************************************************************)
(* C17: the rule-violation scan of the parsing can under-report: for some   *)
(* grid with the same digit three or more times in a row, a column or a     *)
(* box, one of these cells is not in the reported RuleViolation set.        *)
(***************************************************************************)
\* The cells of g that are among three or more cells of one row, column or
\* box with the same digit
in_a_triple(g) ==
    { p \in Positions :
        /\ g[p.row][p.column] # Empty
        /\ \/ Cardinality(holding(g, row_mates(p), g[p.row][p.column])) >= 2
           \/ Cardinality(holding(g, column_mates(p), g[p.row][p.column])) >= 2
           \/ Cardinality(holding(g, box_mates(p), g[p.row][p.column])) >= 2 }

\* The grid of an 81-character text without whitespace
grid_of_text(str) ==
    [ r \in 0..8 |-> [ c \in 0..8 |->
        IF is_digit_entry(str[r * 9 + c + 1]) THEN str[r * 9 + c + 1] - Zero ELSE Empty ] ]

\* The claim as stated, once a grid with three conflicting cells has been
\* parsed: among the texts of 81 ASCII characters on one line there is one
\* whose grid has such a cell that is not reported.
C17_ScanCanUnderReport ==
    parse_done /\ Len(entries) = 81 /\ in_a_triple(lenient_grid(entries)) # {} =>
        \E str \in { t \in Texts : Len(t) = 81 /\ \A i \in 1..81 : t[i] \in 33..127 } :
            \E p \in in_a_triple(grid_of_text(str)) :
                <<p, "SudokuRuleViolation">> \notin errors_of(try_from_str(str))

\* As the code is: every cell among three or more conflicting cells is reported.
C17_ScanReportsEveryCell ==
    parse_done /\ Len(entries) = 81 =>
        in_a_triple(lenient_grid(entries)) \subseteq reported("SudokuRuleViolation")

\* Three '3's in the first row, all reported
C17_Witness ==
    /\ parse_done /\ Len(entries) = 81
    /\ { from_index(1), from_index(4), from_index(6) }
          \subseteq in_a_triple(lenient_grid(entries))
    /\ { from_index(1), from_index(4), from_index(6) }
          \subseteq reported("SudokuRuleViolation")

(***************************************************************************)
(* C18: next_empty_field(p) is None exactly when every cell of row-major    *)
(* index >= index(p) is filled, and else the position of the least such     *)
(* index whose cell is Empty, p included.                                   *)
(***************************************************************************)
C18_NextEmptyField ==
    pc = "returned" /\ op.name = "next_empty_field" =>
        LET empties == { i \in linear(arg_position)..80 :
                           grid[1][i \div 9][i % 9] = Empty }
        IN  /\ returned[1] = None <=> empties = {}
            /\ empties # {} =>
                 returned[1] = Some(from_index(CHOOSE i \in empties :
                                                  \A j \in empties : i <= j))

\* The scan went over filled cells, then over the end of a row, to an Empty
\* cell; the board has an Empty cell before p.
C18_Witness ==
    /\ pc = "returned" /\ op.name = "next_empty_field"
    /\ returned[1] # None
    /\ returned[1][1].row > arg_position.row
    /\ \E i \in 0..(linear(arg_position) - 1) : grid[1][i \div 9][i % 9] = Empty

(***************************************************************************)
(* C19: at a position p whose cell is Empty and for a digit c of 1..9,      *)
(* valid_number_at_position(p, c) is true exactly when c is in no cell of   *)
(* p's row, of p's column and of p's box.                                   *)
(***************************************************************************)
C19_ValidNumberAtPosition ==
    pc = "returned" /\ op.name = "valid_number_at_position"
          /\ get_field(grid[1], arg_position) = Empty
        => returned[1] = fits(grid[1], arg_position.row, arg_position.column, arg_number)

\* false for a digit that is in the column of p only
C19_Witness ==
    /\ pc = "returned" /\ op.name = "valid_number_at_position"
    /\ get_field(grid[1], arg_position) = Empty
    /\ returned[1] = FALSE
    /\ \A k \in 0..8 : grid[1][arg_position.row][k] # arg_number
    /\ \A r \in 0..8 : \A c \in 0..8 :
          (r \div 3 = arg_position.row \div 3 /\ c \div 3 = arg_position.column \div 3)
             => grid[1][r][c] # arg_number

(***************************************************************************)
(* C20: round trip: the 81 cell characters of the rendering of a valid      *)
(* grid g, in row-major order and a blank read as '-', parse to a grid      *)
(* equal to g; the rendering is fixed by the cell contents.                  *)
(***************************************************************************)
C20_RoundTrip ==
    /\ pc = "rendered" =>
          /\ Len(returned[1]) = 14 * 13
          /\ \A i \in 0..80 :
                cell_characters(returned[1])[i + 1] =
                    (IF grid[1][i \div 9][i % 9] = Empty THEN Dash
                     ELSE Zero + grid[1][i \div 9][i % 9])
    /\ parse_done /\ grid # None => parsed[1] = [ok |-> TRUE, board |-> grid[1]]

\* A grid with Empty and filled cells has come back from its rendering.
C20_Witness ==
    /\ parse_done /\ grid # None /\ parsed[1].ok
    /\ parsed[1].board[0][0] = 6 /\ parsed[1].board[0][2] = Empty
    /\ parsed[1].board[8][8] = Empty

(***************************************************************************)
(* C21: the rendering of a grid is 13 lines, each ended by a line feed:     *)
(* "+-----------+" first and last, nine lines "|ccc|ccc|ccc|" with one       *)
(* character per cell, the digit or a space for Empty, and "+---+---+---+"   *)
(* after the third and the sixth of them only.                              *)
(***************************************************************************)
cell_character(f) == IF f = Empty THEN Space ELSE Zero + f

cell_line(g, row) ==
    [ i \in 1..13 |->
        IF i \in {1, 5, 9, 13} THEN Bar
        ELSE cell_character(g[row][(i - 1) - ((i - 1) \div 4) - 1]) ]

expected_line(g, n) ==
    IF n \in {1, 13}
    THEN [ i \in 1..13 |-> IF i \in {1, 13} THEN Plus ELSE Dash ]
    ELSE IF n \in {5, 9}
    THEN [ i \in 1..13 |-> IF i \in {1, 5, 9, 13} THEN Plus ELSE Dash ]
    ELSE cell_line(g, (n - 2) - ((n - 1) \div 4))

C21_RenderingLayout ==
    pc = "rendered" =>
        /\ Len(returned[1]) = 13 * 14
        /\ \A n \in 1..13 :
              SubSeq(returned[1], 14 * (n - 1) + 1, 14 * n)
                  = Append(expected_line(grid[1], n), LineFeed)

\* A grid with filled and Empty cells has been rendered
C21_Witness ==
    /\ pc = "rendered"
    /\ grid[1][0][0] = Empty
    /\ grid[1][0][1] = 3
    /\ grid[1][8][8] = Empty

(***************************************************************************)
(* C22: in a run of the command line program setup is called once and      *)
(* first; display_step once for each pair pulled from the engine, in        *)
(* order, up to and including the first solved pair; display_final_result   *)
(* once, after the last display_step, when solve returns Ok and never when   *)
(* it returns Err; teardown once and last, either way.                      *)
(***************************************************************************)
\* The calls of display_step for a sequence of pairs
steps_of(pairs) ==
    [ k \in 1..Len(pairs) |-> renderer_call("display_step", Some(pairs[k].board)) ]

\* The calls up to the end of the loop
calls_of_solve(pairs) == << renderer_call("setup", None) >> \o steps_of(pairs)

\* The pairs are those pulled up to and including the first solved one, or
\* all of them when none is solved
pulled_to_first_solved(items) ==
    LET pairs == pairs_before_none(items)
    IN  /\ \A k \in 1..(Len(pairs) - 1) : ~pairs[k].is_solved
        /\ IF has_returned_none(items)
           THEN Len(items) = Len(pairs) + 1 /\ \A k \in 1..Len(pairs) : ~pairs[k].is_solved
           ELSE pairs # << >> /\ Last(pairs).is_solved

renderer_calls_in_order ==
    /\ pc \in {"next", "execute_stack"} =>
          renderer_calls = calls_of_solve(pairs_before_none(emitted))
    /\ pc = "exited" =>
          /\ calls = 1 => pulled_to_first_solved(emitted)
          /\ renderer_calls =
                 calls_of_solve(pairs_before_none(emitted))
                     \o (IF result[1].ok
                         THEN << renderer_call("display_final_result",
                                               Some(result[1].board)) >>
                         ELSE << >>)
                     \o << renderer_call("teardown", None) >>

\* A call that was made stays made: the calls are only added at the end
renderer_calls_grow ==
    /\ Len(renderer_calls') >= Len(renderer_calls)
    /\ SubSeq(renderer_calls', 1, Len(renderer_calls)) = renderer_calls

C22_RendererCallsOrdered == []renderer_calls_in_order /\ [][renderer_calls_grow]_vars

\* A run that showed several steps, the last one solved, and then the result
C22_Witness ==
    /\ pc = "exited"
    /\ result[1].ok
    /\ Len(emitted) >= 3
    /\ Last(emitted)[1].is_solved
    /\ Len(renderer_calls) = Len(emitted) + 3

(***************************************************************************)
(* C23: the command line program prints an error message and exits with     *)
(* code 1 on every parse error and whenever no solution is found for the    *)
(* board; it exits with code 0 only when the board was parsed and a         *)
(* solution was found.                                                      *)
(***************************************************************************)
\* solve returned a board, and it is a solution: full, no digit twice
solution_found ==
    /\ result # None /\ result[1].ok
    /\ \A r \in 0..8, c \in 0..8 : result[1].board[r][c] # Empty

exit_codes ==
    /\ exit_code \in { Some(0), Some(1) }
    /\ exit_code = Some(0) <=> (parsed # None /\ parsed[1].ok /\ solution_found)
    /\ exit_code = Some(1) => stdout # << >>

C23_ExitCodes == pc = "exited" => exit_codes

\* The same when the file is not read, is not parsed, or solve's loop has
\* come upon a solved pair, where it holds
ExitCodes_UnlessNoSolvedPair ==
    pc = "exited" /\ (calls = 1 => ~has_returned_none(emitted)) => exit_codes

(***************************************************************************)
(* Vocabulary of the engine's properties                                    *)
(***************************************************************************)
\* An engine exists, and this is the grid it was created with
engine_created == calls >= 1 /\ parsed # None /\ parsed[1].ok
initial_grid == parsed[1].board

\* next() has just returned a pair: its snapshot, and the cell it wrote
pair_emitted == engine_created /\ pc = "item" /\ Last(emitted) # None
snapshot == Last(emitted)[1].board
cursor == linear(current_position)

cell_at(g, i) == g[i \div 9][i % 9]

\* The row-major indices of the cells that are Empty in the initial grid
initially_empty == { i \in 0..80 : cell_at(initial_grid, i) = Empty }

(***************************************************************************)
(* C24: in every emitted snapshot every cell up to the cell written by the  *)
(* advance, in row-major order, is filled, and every cell after it holds    *)
(* what it held in the initial grid.                                        *)
(***************************************************************************)
C24_FilledUpToCursor ==
    pair_emitted =>
        \A i \in 0..80 :
            IF i <= cursor THEN cell_at(snapshot, i) # Empty
            ELSE cell_at(snapshot, i) = cell_at(initial_grid, i)

\* A snapshot emitted after a guess beyond its cursor was taken back
C24_Witness ==
    /\ pair_emitted
    /\ \E k \in 1..(Len(emitted) - 1) :
          /\ emitted[k] # None
          /\ \E i \in (cursor + 1)..80 :
                /\ cell_at(emitted[k][1].board, i) # Empty
                /\ cell_at(snapshot, i) = Empty

(***************************************************************************)
(* C25: in every state of an engine, the states between two clears of one   *)
(* advance included, each cell that is filled in the initial grid holds     *)
(* its initial digit.                                                       *)
(***************************************************************************)
C25_GivenCellsKept ==
    engine_created =>
        \A i \in 0..80 \ initially_empty : cell_at(board, i) = cell_at(initial_grid, i)

\* The engine has moved back to (0,0), a cell filled in the initial grid,
\* within an advance
C25_Witness ==
    /\ engine_created
    /\ pc = "execute_stack"
    /\ advances >= 2
    /\ current_position = from_index(0)
    /\ 0 \notin initially_empty
    /\ initially_empty # {}

(***************************************************************************)
(* C26: when a pair is emitted, with g1 < ... < gk = cursor the initially   *)
(* Empty cells up to the cursor and g0 = (0,0), the stack is, from the      *)
(* bottom, for i = 1..k: BackTo(g(i-1)), then TryValue(gi, di + 1) if and   *)
(* only if the digit di at gi is below 9. No TryValue ever holds 10, and    *)
(* the stack is never longer than twice the number of initially Empty       *)
(* cells.                                                                   *)
(***************************************************************************)
\* The k-th least element of a set of numbers
kth(S, k) == CHOOSE x \in S : Cardinality({ y \in S : y < x }) = k - 1

expected_stack ==
    LET guessed == { i \in initially_empty : i <= cursor }
        g(i) == IF i = 0 THEN 0 ELSE kth(guessed, i)
        frames[i \in 0..Cardinality(guessed)] ==
            IF i = 0 THEN << >>
            ELSE frames[i - 1] \o << BackTo(from_index(g(i - 1))) >>
                   \o (IF cell_at(board, g(i)) < 9
                       THEN << TryValue(from_index(g(i)), cell_at(board, g(i)) + 1) >>
                       ELSE << >>)
    IN  frames[Cardinality(guessed)]

C26_StackShape ==
    /\ pair_emitted => stack = expected_stack
    /\ engine_created =>
          /\ \A k \in 1..Len(stack) : stack[k].instr = "TryValue" => stack[k].v \in 1..9
          /\ Len(stack) <= 2 * Cardinality(initially_empty)

\* A pair emitted with a 9 at a guessed cell below the cursor: no TryValue for it
C26_Witness ==
    /\ pair_emitted
    /\ \E i \in initially_empty : i < cursor /\ cell_at(board, i) = 9
    /\ Len(stack) >= 4

(***************************************************************************)
(* C27: when the engine takes a TryValue(p, v) from the stack, the cell at  *)
(* p is Empty or holds a digit below every candidate c in v..9, which is    *)
(* v - 1 for an instruction that resumes, so that no candidate is rejected  *)
(* because of what the cell itself holds.                                   *)
(***************************************************************************)
C27_OwnContentNeverRejects ==
    engine_created /\ pc = "execute_stack" /\ stack # << >>
                   /\ Top(stack).instr = "TryValue" =>
        LET p == Top(stack).pos
            v == Top(stack).v
            held == get_field(board, p)
        IN  /\ held = (IF v = 1 THEN Empty ELSE v - 1)
            /\ \A c \in v..9 :
                  /\ held = Empty \/ held < c
                  /\ valid_number_at_position(board, p, from_u8(c))
                       <=> valid_number_at_position(put_field(board, p, Empty), p, from_u8(c))

\* An instruction that resumes is taken, the cell still holding its digit
C27_Witness ==
    /\ engine_created /\ pc = "execute_stack" /\ stack # << >>
    /\ Top(stack).instr = "TryValue"
    /\ Top(stack).v >= 2
    /\ get_field(board, Top(stack).pos) = Top(stack).v - 1

(***************************************************************************)
(* C28: from the creation of an engine to its first None, no two advances   *)
(* return the same grid.                                                    *)
(***************************************************************************)
C28_NoGridTwice ==
    pair_emitted /\ ~has_returned_none(emitted) =>
        \A k \in 1..(Len(emitted) - 1) : emitted[k][1].board # snapshot

\* A cell is written for the third time, before the first None
C28_Witness ==
    /\ pair_emitted /\ ~has_returned_none(emitted)
    /\ Cardinality({ k \in 1..Len(emitted) :
                       LET b == emitted[k][1].board
                       IN  /\ next_empty_field(b, from_index(0)) # None
                           /\ linear(next_empty_field(b, from_index(0))[1]) > cursor
                           /\ \A i \in (cursor + 1)..80 :
                                 cell_at(b, i) = cell_at(initial_grid, i)
                           /\ \A i \in 0..(cursor - 1) :
                                 cell_at(b, i) # Empty }) >= 3

(***************************************************************************)
(* C29: once an advance of an engine has returned None, every later         *)
(* advance of that engine returns None.                                     *)
(***************************************************************************)
C29_ExhaustionIsFinal ==
    engine_created =>
        \A i \in 1..Len(emitted) :
            emitted[i] = None => \A j \in i..Len(emitted) : emitted[j] = None

\* The same for an engine created on a grid without Empty cell, where it holds
ExhaustionIsFinal_OnFullGrid ==
    engine_created /\ initially_empty = {} =>
        \A i \in 1..Len(emitted) :
            emitted[i] = None => \A j \in i..Len(emitted) : emitted[j] = None

(***************************************************************************)
(* C30: when the engine returns None its stack is empty, its current        *)
(* position is (0,0) and its board is the initial grid, cell for cell.      *)
(***************************************************************************)
C30_BackAtTheStart ==
    engine_created /\ pc = "item" /\ Last(emitted) = None =>
        /\ stack = << >>
        /\ current_position = [row |-> 0, column |-> 0]
        /\ board = initial_grid

\* None after several pairs, on a grid whose first cell is filled
C30_Witness ==
    /\ engine_created /\ pc = "item" /\ Last(emitted) = None
    /\ Len(emitted) >= 4
    /\ 0 \notin initially_empty
    /\ board = initial_grid

C31_Witness_FirstSolution ==
    /\ pc = "done" /\ engine_created /\ is_full(initial_grid)
    /\ op.name = "first_solution"
    /\ emitted = <<None>>
    /\ result = Some(Err("Unsolvable"))

(***************************************************************************)
(* C32: for every valid grid, first_solution returns Err(Unsolvable) if and *)
(* only if count_solutions(None, None) of the same grid returns 0.          *)
(***************************************************************************)
C32_UnsolvableIffCountIsZero ==
    /\ pc = "done" /\ calls = 2
    /\ op.name = "count_solutions" /\ first_result # None
    => (first_result = Some(Err("Unsolvable")) <=> result = Some(0))

\* Both sides hold, on a grid with Empty cells that has no solution
C32_Witness ==
    /\ pc = "done" /\ calls = 2
    /\ op.name = "count_solutions"
    /\ first_result = Some(Err("Unsolvable")) /\ result = Some(0)
    /\ ~is_full(parsed[1].board)
    /\ Len(emitted) >= 2

\* Neither side holds, on a grid with a solution
C32_Witness_Solvable ==
    /\ pc = "done" /\ calls = 2
    /\ op.name = "count_solutions"
    /\ first_result # None /\ first_result[1].ok /\ result # Some(0)

(***************************************************************************)
(* C33: for every index i of 0..80, from_index(i) is (i div 9, i mod 9),    *)
(* both in 0..8; its incremented_copy is from_index(i + 1) if i < 80 and    *)
(* None if i = 80; and a PositionIter started at from_index(i) yields the   *)
(* positions of i, i + 1, ..., 80 in that order and then None.              *)
(***************************************************************************)
C33_PositionsInOrder ==
    pc = "position_iter" =>
        LET i == arg_number
            start == from_index(i)
        IN  /\ arg_position = start
            /\ start.row = i \div 9 /\ start.column = i % 9
            /\ start.row \in 0..8 /\ start.column \in 0..8
            /\ start.row * 9 + start.column = i
            /\ incremented_copy(start) =
                   IF i < 80 THEN Some(from_index(i + 1)) ELSE None
            /\ \A k \in 1..Len(yielded) :
                   yielded[k] = IF i + k - 1 <= 80
                                THEN Some([row |-> (i + k - 1) \div 9,
                                           column |-> (i + k - 1) % 9])
                                ELSE None

\* A PositionIter started at the first field has yielded all 81 positions and None
C33_Witness ==
    /\ pc = "position_iter"
    /\ arg_number = 0
    /\ Len(yielded) = 82
    /\ yielded[81] = Some([row |-> 8, column |-> 8])
    /\ yielded[82] = None

\* A PositionIter started at the last field has yielded it and then None
C33_Witness_LastField ==
    /\ pc = "position_iter"
    /\ arg_number = 80
    /\ yielded = << Some([row |-> 8, column |-> 8]), None >>

\* Every filled field of a board holds a digit of 1..9
digits_only(b) ==
    \A r \in 0..8 : \A c \in 0..8 : is_filled(b[r][c]) => b[r][c] \in 1..9

(***************************************************************************)
(* C34: Field::new(v) returns Ok exactly when 1 <= v <= 9 and an            *)
(* InvalidCharacter error otherwise; every filled cell of a successfully    *)
(* parsed grid and of an engine snapshot holds a digit of 1..9, the         *)
(* unvalidated Field::from_u8 being called by the engine with 1..9 only.    *)
(***************************************************************************)
C34_DigitsOnly ==
    /\ pc = "returned" /\ op.name = "Field::new" =>
           /\ returned[1].ok <=> (1 <= arg_number /\ arg_number <= 9)
           /\ returned[1].ok => returned[1].field = arg_number
    /\ parsed # None /\ Len(input) = 81 =>
           \A i \in 0..80 :
               input[i + 1] # None /\ input[i + 1][1] \notin 1..9 =>
                   /\ ~parsed[1].ok
                   /\ <<from_index(i), "InvalidCharacter">> \in parsed[1].errors
    /\ parsed # None /\ parsed[1].ok => digits_only(parsed[1].board)
    /\ engine_created =>
           /\ digits_only(board)
           /\ has_pair => digits_only(last_pair.board)
           /\ \A k \in 1..Len(stack) :
                  stack[k].instr = "TryValue" => stack[k].v \in 1..9

\* Field::new has refused 10
C34_Witness ==
    /\ pc = "returned" /\ op.name = "Field::new"
    /\ arg_number = 10
    /\ ~returned[1].ok

\* Field::new has accepted 9
C34_Witness_Nine ==
    /\ pc = "returned" /\ op.name = "Field::new"
    /\ arg_number = 9
    /\ returned[1] = [ok |-> TRUE, field |-> 9]

\* An input with a 0 in a cell has been refused
C34_Witness_NotParsed ==
    /\ parsed # None /\ ~parsed[1].ok
    /\ input[DigitCell + 1] = Some(0)
    /\ parsed[1].errors = { <<from_index(DigitCell), "InvalidCharacter">> }

\* The engine has put a 9 with Field::from_u8 and emitted the snapshot
C34_Witness_Snapshot ==
    /\ engine_created /\ has_pair
    /\ get_field(last_pair.board, from_index(NineCell)) = 9
    /\ NineCell \in initially_empty

(***************************************************************************)
(* C35: a BoardIter of src/sudoku positioned at a valid position p yields   *)
(* the (position, field) pairs of the indices index(p), ..., 80 in          *)
(* row-major order and then None, and reads no field outside the 9x9 array; *)
(* next_empty_field built on it returns the first Empty field at or after   *)
(* p, or None.                                                              *)
(***************************************************************************)
C35_BoardIterInOrder ==
    /\ pc # "panicked"
    /\ pc = "board_iter" =>
           LET i == arg_position.row * 9 + arg_position.column
           IN  /\ \A k \in 1..Len(yielded) :
                      yielded[k] =
                          IF i + k - 1 <= 80
                          THEN Some(<< [row |-> (i + k - 1) \div 9,
                                        column |-> (i + k - 1) % 9],
                                       grid[1][(i + k - 1) \div 9][(i + k - 1) % 9] >>)
                          ELSE None
               /\ LET at == board_iter[1].position
                  IN  at.row * 9 + at.column = IF i + Len(yielded) <= 81
                                               THEN i + Len(yielded) ELSE 81
    /\ pc = "returned" /\ op.name = "SudokuBoard::next_empty_field" =>
           LET i == arg_position.row * 9 + arg_position.column
               later == { j \in i..80 : grid[1][j \div 9][j % 9] = Empty }
           IN  returned[1] =
                   IF later = {} THEN None
                   ELSE LET first == CHOOSE j \in later : \A other \in later : j <= other
                        IN  Some([row |-> first \div 9, column |-> first % 9])

\* A BoardIter positioned at the first field has yielded all 81 pairs and None
C35_Witness ==
    /\ pc = "board_iter"
    /\ arg_position = [row |-> 0, column |-> 0]
    /\ grid[1] # EmptyBoard /\ ~is_full(grid[1])
    /\ Len(yielded) = 82
    /\ yielded[81] # None /\ yielded[81][1][1] = [row |-> 8, column |-> 8]
    /\ yielded[82] = None
    /\ board_iter[1].position = [row |-> 9, column |-> 0]

\* next_empty_field has skipped filled fields, and has found none
C35_Witness_NextEmptyField ==
    /\ pc = "returned" /\ op.name = "SudokuBoard::next_empty_field"
    /\ returned[1] # None
    /\ returned[1][1].row * 9 + returned[1][1].column
           > arg_position.row * 9 + arg_position.column + 2

C35_Witness_NoEmptyField ==
    /\ pc = "returned" /\ op.name = "SudokuBoard::next_empty_field"
    /\ returned[1] = None
    /\ ~is_full(grid[1])

====
